---- MODULE Spec2Model ----
(***************************************************************************)
(* Collaborative text-document core of open-collaboration-tools:           *)
(* YjsNormalizedTextDocument (text mirror of a Y.Text with LF-normalized   *)
(* content, echo suppression by ChangeSets) and YTextChangeTracker.        *)
(*                                                                         *)
(* Texts are sequences of one-character strings.  Offsets are 0-based as   *)
(* in the source; sequence indices are 1-based, so source index i is       *)
(* element i+1.                                                            *)
(***************************************************************************)
EXTENDS Integers, Sequences, FiniteSets, TLC

VARIABLES
    yjsText,             \* content of the shared Y.Text (_yjsText.toString())
    text,                \* _text: the native text mirror
    offsets,             \* _offsets: cached line table, <<>> when undefined
    textLength,          \* _textLength, Undefined until first computed
    normalizedLength,    \* _normalizedLength, Undefined until first computed
    changeSets,          \* _changeSets: pending ChangeSet objects (id = object identity)
    callbacks,           \* invocations of the changed-callback whose promise is not settled
    editorText,          \* the buffer of the editor behind the callback
    nextId,              \* identity of the next ChangeSet object
    edits,               \* number of editor-originated update() calls so far
    hasCRAtConstruction, \* whether _text contained '\r' when the constructor ran
    last,                \* what the last operation did (observation record)
    trk,                 \* YTextChangeTracker harness state
    eng,                 \* one document of the editor extension's CollaborationInstance
    subscription,        \* whether this.observer is registered on the Y.Text, whether
                         \* dispose() was called, and whether the Y.Text belongs to
                         \* a Y.Doc (_yjsText.doc)
    agent,               \* one applyChanges call of the agent and the edits it issued
    svc,                 \* a host and a guest service process sharing one text document
    cfg,                 \* a configuration object and one getValue call on it
    reg,                 \* observer registrations of the extension's open documents
    mon                  \* the Monaco engine: model text, Y.Text and the updates set

vars == <<yjsText, text, offsets, textLength, normalizedLength, changeSets,
          callbacks, editorText, nextId, edits, hasCRAtConstruction, last, trk, eng,
          subscription, agent, svc, cfg, reg, mon>>

docVars == <<yjsText, text, offsets, textLength, normalizedLength, changeSets,
             callbacks, editorText, nextId, edits, hasCRAtConstruction, last, eng,
             subscription, agent, svc, cfg, reg, mon>>

-----------------------------------------------------------------------------
(* Bounds *)

MaxLen == 3
MaxEvents == 1
MaxEdits == 2
MaxSegs == 2

-----------------------------------------------------------------------------
(* Characters and strings *)

CR == "\r"
LF == "\n"
Chars == {"a", CR, LF}
RemoteChars == {"a", LF}

Undefined == 0 - 1

Min(a, b) == IF a < b THEN a ELSE b
Max(a, b) == IF a > b THEN a ELSE b

RECURSIVE Strings(_, _)
Strings(alphabet, n) ==
    IF n = 0 THEN {<<>>}
    ELSE LET shorter == Strings(alphabet, n - 1)
         IN shorter \cup {Append(s, c) : s \in {t \in shorter : Len(t) = n - 1}, c \in alphabet}

Clamp(n, len) == IF n < 0 THEN 0 ELSE IF n > len THEN len ELSE n

\* String.prototype.substring(a, b): both ends clamped to [0, length], swapped if a > b
substring(s, a, b) ==
    LET x == Clamp(a, Len(s))
        y == Clamp(b, Len(s))
    IN SubSeq(s, Min(x, y) + 1, Max(x, y))

\* String.prototype.substring(a)
substringFrom(s, a) == SubSeq(s, Clamp(a, Len(s)) + 1, Len(s))

includesCRNever(s) == FALSE

\* this._text.includes('\r')
includesCR(s) == \E i \in 1..Len(s) : s[i] = CR

isEOL(char) == char = CR \/ char = LF

-----------------------------------------------------------------------------
(* YTextChange, YTextChangeDelta *)

Change(start, end, txt) == [start |-> start, end |-> end, text |-> txt]

Retain(n) == [op |-> "retain", n |-> n, s |-> <<>>]
Insert(s) == [op |-> "insert", n |-> 0, s |-> s]
Delete(n) == [op |-> "delete", n |-> n, s |-> <<>>]

\* insertion into an ascending list, after every element with start <= c.start
RECURSIVE sortInsert(_, _)
sortInsert(sorted, c) ==
    IF sorted = <<>> THEN <<c>>
    ELSE IF Head(sorted).start <= c.start
         THEN <<Head(sorted)>> \o sortInsert(Tail(sorted), c)
         ELSE <<c>> \o sorted

RECURSIVE sortFrom(_, _)
sortFrom(changes, acc) ==
    IF changes = <<>> THEN acc
    ELSE sortFrom(Tail(changes), sortInsert(acc, Head(changes)))

\* YTextChange.sort: a stable sort by ascending start on a copy
sort(changes) == sortFrom(changes, <<>>)

RECURSIVE toChangesFrom(_, _, _)
toChangesFrom(delta, index, changes) ==
    IF delta = <<>> THEN changes
    ELSE LET op == Head(delta) IN
         IF op.op = "retain" THEN toChangesFrom(Tail(delta), index + op.n, changes)
         ELSE IF op.op = "insert"
              THEN toChangesFrom(Tail(delta), index, Append(changes, Change(index, index, op.s)))
              ELSE toChangesFrom(Tail(delta), index + op.n,
                                 Append(changes, Change(index, index + op.n, <<>>)))

\* YTextChangeDelta.toChanges
toChanges(delta) == toChangesFrom(delta, 0, <<>>)

indexAfterDeleteStays(index, n) == index

\* index += op.delete
indexAfterDelete(index, n) == index + n

\* the loop of YTextChangeTracker.applyDelta over the operations of the delta
RECURSIVE trackerApplyDeltaFrom(_, _, _)
trackerApplyDeltaFrom(delta, index, changes) ==
    IF delta = <<>> THEN changes
    ELSE IF Head(delta).op = "retain"
         THEN trackerApplyDeltaFrom(Tail(delta), index + Head(delta).n, changes)
         ELSE IF Head(delta).op = "insert"
              THEN trackerApplyDeltaFrom(Tail(delta), index,
                                         Append(changes, Change(index, index, Head(delta).s)))
              ELSE trackerApplyDeltaFrom(Tail(delta), indexAfterDelete(index, Head(delta).n),
                                         Append(changes, Change(index, index + Head(delta).n,
                                                                <<>>)))

\* YTextChangeTracker.applyDelta: the changes it hands to applyChanges
trackerApplyDelta(delta) == trackerApplyDeltaFrom(delta, 0, <<>>)

\* the same loop in the tracker of the open-collaboration-yjs package
RECURSIVE applyDeltaChangesFrom(_, _, _)
applyDeltaChangesFrom(delta, index, changes) ==
    IF delta = <<>> THEN changes
    ELSE IF Head(delta).op = "retain"
         THEN applyDeltaChangesFrom(Tail(delta), index + Head(delta).n, changes)
         ELSE IF Head(delta).op = "insert"
              THEN applyDeltaChangesFrom(Tail(delta), index,
                                         Append(changes, [start |-> index, end |-> index,
                                                          text |-> Head(delta).s]))
              ELSE applyDeltaChangesFrom(Tail(delta), index + Head(delta).n,
                                         Append(changes, [start |-> index,
                                                          end |-> index + Head(delta).n,
                                                          text |-> <<>>]))

\* YTextChangeTracker.applyDelta of the package: the changes of a delta
applyDeltaChanges(delta) == applyDeltaChangesFrom(delta, 0, <<>>)

-----------------------------------------------------------------------------
(* Line offsets *)

skipLineFeedNever(i, crlf) == i

\* i++ when the carriage return at i is followed by a line feed
skipLineFeed(i, crlf) == IF crlf THEN i + 1 ELSE i

RECURSIVE lineOffsetsFrom(_, _, _, _)
lineOffsetsFrom(t, i, normalizationOffset, result) ==
    IF i >= Len(t)
    THEN [offsets |-> result,
          length |-> Len(t),
          normalizedLength |-> Len(t) + Len(result) - normalizationOffset]
    ELSE IF isEOL(t[i + 1])
         THEN LET crlf == t[i + 1] = CR /\ i + 1 < Len(t) /\ t[i + 2] = LF
                  j == skipLineFeed(i, crlf)
                  no == IF crlf THEN normalizationOffset + 1 ELSE normalizationOffset
                  offset == j + 1
              IN lineOffsetsFrom(t, j + 1, no,
                     Append(result, [normalized |-> offset - no, offset |-> offset]))
         ELSE lineOffsetsFrom(t, i + 1, normalizationOffset, result)

computeNormalizedLineOffsets(t) ==
    lineOffsetsFrom(t, 0, 0, <<[normalized |-> 0, offset |-> 0]>>)

keyOf(entry, key) == IF key = "offset" THEN entry.offset ELSE entry.normalized

RECURSIVE findLow(_, _, _, _, _)
findLow(lineOffsets, offset, key, low, high) ==
    IF low < high
    THEN LET mid == (low + high) \div 2 IN
         IF keyOf(lineOffsets[mid + 1], key) > offset
         THEN findLow(lineOffsets, offset, key, low, mid)
         ELSE findLow(lineOffsets, offset, key, mid + 1, high)
    ELSE low

findLineOffset(lineOffsets, offset, key) ==
    LET line == findLow(lineOffsets, offset, key, 0, Len(lineOffsets)) - 1
    IN [offsets |-> lineOffsets[line + 1], index |-> line]

originalOffsetNoDelta(lineOffsets, normalizedOffset) ==
    findLineOffset(lineOffsets, normalizedOffset, "normalized").offsets.offset

\* originalOffset on the line table that getLineOffsets() returns
originalOffset(lineOffsets, normalizedOffset) ==
    LET lineOffset == findLineOffset(lineOffsets, normalizedOffset, "normalized").offsets
    IN lineOffset.offset + (normalizedOffset - lineOffset.normalized)

-----------------------------------------------------------------------------
(* normalize, countNormalizedOffsets *)

RECURSIVE normalizeFrom(_, _, _)
normalizeFrom(t, i, nl) ==
    IF i > Len(t) THEN <<>>
    ELSE IF t[i] = CR /\ i < Len(t) /\ t[i + 1] = LF THEN nl \o normalizeFrom(t, i + 2, nl)
    ELSE IF t[i] = LF THEN nl \o normalizeFrom(t, i + 1, nl)
    ELSE <<t[i]>> \o normalizeFrom(t, i + 1, nl)

\* text.replace(/\r?\n/g, withCR ? '\r\n' : '\n')
normalize(t, withCR) == normalizeFrom(t, 1, IF withCR THEN <<CR, LF>> ELSE <<LF>>)

\* charCodeAt(i) !== CharCode.CarriageReturn; charCodeAt is NaN outside the string
notCarriageReturn(t, i) == ~(i >= 0 /\ i < Len(t) /\ t[i + 1] = CR)

RECURSIVE countFrom(_, _, _, _, _, _)
countFrom(t, start, end, i, nStart, nEnd) ==
    IF i < end
    THEN IF notCarriageReturn(t, i)
         THEN countFrom(t, start, end, i + 1, IF i < start THEN nStart + 1 ELSE nStart, nEnd + 1)
         ELSE countFrom(t, start, end, i + 1, nStart, nEnd)
    ELSE <<nStart, nEnd>>

countNormalizedOffsets(t, start, end) == countFrom(t, start, end, 0, 0, 0)

-----------------------------------------------------------------------------
(* Y.Text operations used by the document *)

\* Y.Text.delete(index, length): stops at the end of the text
yDelete(y, index, length) ==
    IF length <= 0 THEN y
    ELSE substring(y, 0, index) \o substringFrom(y, Clamp(index, Len(y)) + length)

\* Y.Text.insert(index, s): a position past the end is the end
yInsert(y, index, s) == substring(y, 0, index) \o s \o substringFrom(y, index)

\* the Y.Text calls of delete(index, length) then insert(index, s) that change
\* the type: a delete that removes a character, an insert of a non-empty text
yChanging(y, index, length, s) ==
    (IF length > 0 /\ index < Len(y) THEN 1 ELSE 0) + (IF s # <<>> THEN 1 ELSE 0)

\* the transactions of `calls` Y.Text calls, `changing` of which change the
\* type, made without doc.transact: every call is a transaction of its own
transactPerCall(calls, changing) ==
    [i \in 1..calls |-> [calls |-> 1, changing |-> IF i <= changing THEN 1 ELSE 0]]

\* doc.transact(() => run()): the Y.Text calls that run makes, `changing` of
\* which change the type, belong to the one transaction that transact opens
transact(calls, changing) == <<[calls |-> calls, changing |-> changing]>>

\* the calls of an observer of the Y.Text that a list of transactions causes:
\* one at the end of each transaction that changed the type, none when the
\* observer is not registered
observerEvents(transactions, observing) ==
    IF observing
    THEN Cardinality({i \in 1..Len(transactions) : transactions[i].changing > 0})
    ELSE 0

isLocalNever(event) == FALSE

\* transaction.local of the event handed to the observer
isLocal(event) == event.local

RECURSIVE reverse(_)
reverse(s) == IF s = <<>> THEN <<>> ELSE Append(reverse(Tail(s)), Head(s))

\* the longest common prefix of old and new, at most m long
commonPrefix(old, new, m) ==
    CHOOSE k \in 0..m :
        /\ SubSeq(old, 1, k) = SubSeq(new, 1, k)
        /\ \A j \in (k + 1)..m : SubSeq(old, 1, j) # SubSeq(new, 1, j)

\* event.delta of a local transaction: the difference it made to the Y.Text
localDelta(old, new) ==
    LET build(p, del, ins) ==
            (IF p > 0 THEN <<Retain(p)>> ELSE <<>>)
            \o (IF del > 0 THEN <<Delete(del)>> ELSE <<>>)
            \o (IF ins # <<>> THEN <<Insert(ins)>> ELSE <<>>)
        cut(p, q) == build(p, Len(old) - p - q, SubSeq(new, p + 1, Len(new) - q))
        suffix(p) ==
            cut(p, commonPrefix(reverse(old), reverse(new), Min(Len(old), Len(new)) - p))
    IN suffix(commonPrefix(old, new, Min(Len(old), Len(new))))

RECURSIVE applyDeltaFrom(_, _, _)
applyDeltaFrom(y, delta, pos) ==
    IF delta = <<>> THEN y
    ELSE LET op == Head(delta) IN
         IF op.op = "retain" THEN applyDeltaFrom(y, Tail(delta), pos + op.n)
         ELSE IF op.op = "insert"
              THEN applyDeltaFrom(SubSeq(y, 1, pos) \o op.s \o SubSeq(y, pos + 1, Len(y)),
                                  Tail(delta), pos + Len(op.s))
              ELSE applyDeltaFrom(SubSeq(y, 1, pos) \o SubSeq(y, pos + op.n + 1, Len(y)),
                                  Tail(delta), pos)

\* the Y.Text after a transaction whose event carries `delta`
applyDelta(y, delta) == applyDeltaFrom(y, delta, 0)

-----------------------------------------------------------------------------
(* YjsNormalizedTextDocument *)

\* d: the fields of one document object, plus the number of Y.Text calls made
DocOf(t, y, o, tl, nl, cs) ==
    [text |-> t, yjsText |-> y, offsets |-> o, textLength |-> tl,
     normalizedLength |-> nl, changeSets |-> cs, writes |-> 0, effective |-> 0]

RECURSIVE spliceChanges(_, _, _)
spliceChanges(fullText, changes, delta) ==
    IF changes = <<>> THEN fullText
    ELSE LET change == Head(changes) IN
         spliceChanges(substring(fullText, 0, change.start + delta) \o change.text
                           \o substringFrom(fullText, change.end + delta),
                       Tail(changes),
                       delta + Len(change.text) - (change.end - change.start))

shouldApplyUnsorted(sets, changes) ==
    ~\E i \in 1..Len(sets) : spliceChanges(sets[i].before, changes, 0) = sets[i].after

shouldApply(sets, changes) ==
    ~\E i \in 1..Len(sets) : spliceChanges(sets[i].before, sort(changes), 0) = sets[i].after

getLineOffsets(d) ==
    IF d.offsets = <<>>
    THEN LET lineOffsets == computeNormalizedLineOffsets(d.text)
         IN [d EXCEPT !.offsets = lineOffsets.offsets,
                      !.textLength = lineOffsets.length,
                      !.normalizedLength = lineOffsets.normalizedLength]
    ELSE d

RECURSIVE doUpdateChanges(_, _, _, _)
doUpdateChanges(d, changes, delta, yjs) ==
    LET splice(change, startOffset, endOffset, n) ==
            doUpdateChanges(
                [d EXCEPT !.text = substring(d.text, 0, startOffset) \o change.text
                                       \o substringFrom(d.text, endOffset),
                          !.yjsText = IF yjs
                                      THEN yInsert(yDelete(@, n[1], n[2] - n[1]), n[1],
                                                   normalize(change.text, FALSE))
                                      ELSE @,
                          !.writes = IF yjs THEN @ + 2 ELSE @,
                          !.effective = IF yjs
                                        THEN @ + yChanging(d.yjsText, n[1], n[2] - n[1],
                                                           normalize(change.text, FALSE))
                                        ELSE @],
                Tail(changes),
                delta + Len(change.text) - (endOffset - startOffset),
                yjs)
        count(change, startOffset, endOffset) ==
            splice(change, startOffset, endOffset,
                   countNormalizedOffsets(d.text, startOffset, endOffset))
    IN IF changes = <<>> THEN d
       ELSE count(Head(changes), Head(changes).start + delta, Head(changes).end + delta)

\* event: [full |-> TRUE, str |-> text] or [full |-> FALSE, changes |-> list]
doUpdate(d, event, yjs) ==
    LET d0 == [d EXCEPT !.offsets = <<>>] IN
    IF event.full
    THEN [d0 EXCEPT !.text = event.str,
                    !.yjsText = IF yjs
                                THEN yInsert(yDelete(@, 0, Len(@)), 0, normalize(event.str, FALSE))
                                ELSE @,
                    !.writes = IF yjs THEN @ + 2 ELSE @,
                    !.effective = IF yjs
                                  THEN @ + yChanging(d.yjsText, 0, Len(d.yjsText),
                                                     normalize(event.str, FALSE))
                                  ELSE @]
    ELSE doUpdateChanges(d0, sort(event.changes), 0, yjs)

NoCallback(d) == [d |-> d, invoked |-> FALSE, delivered |-> <<>>, hasCR |-> FALSE]

\* observe up to and including the call of the callback; the part after the
\* await is CallbackResolved
observe(d, event, id) ==
    LET push(before, d2, changeSet, hasCR) ==
            [d |-> [d2 EXCEPT !.changeSets =
                        Append(@, [id |-> id, before |-> before, after |-> d2.text])],
             invoked |-> TRUE, delivered |-> changeSet, hasCR |-> hasCR]
        apply(d1, changeSet, hasCR) ==
            push(d1.text,
                 doUpdate(d1, [full |-> FALSE, str |-> <<>>, changes |-> changeSet], FALSE),
                 changeSet, hasCR)
        translate(d1, changes, hasCR) ==
            apply(d1,
                  [i \in 1..Len(changes) |->
                      Change(originalOffset(d1.offsets, changes[i].start),
                             originalOffset(d1.offsets, changes[i].end),
                             normalize(changes[i].text, hasCR))],
                  hasCR)
        handle(changes, hasCR) ==
            translate(IF changes = <<>> THEN d ELSE getLineOffsets(d), changes, hasCR)
    IN IF isLocal(event) THEN NoCallback(d)
       ELSE handle(toChanges(event.delta), includesCR(d.text))

\* the Y.Text calls of run() on a Y.Text that belongs to no Y.Doc: the calls
\* are made, the type keeps them for the day it is added to a Y.Doc and
\* reads as before
withoutDoc(d, d1) == [d1 EXCEPT !.yjsText = d.yjsText, !.effective = 0]

\* update(event): with a Y.Doc (sub.attached) run() is inside one transaction,
\* which ends with the observer call when the document's observer is
\* registered (sub.observing); without one run() is called as it is and no
\* transaction is opened
update(d, event, id, sub) ==
    LET result(should, d1, transactions, fired, obs) ==
            [d |-> obs.d, should |-> should, fired |-> fired, pre |-> d1,
             transactions |-> transactions,
             events |-> observerEvents(transactions, sub.observing),
             invoked |-> obs.invoked, delivered |-> obs.delivered]
        commit(should, d1, transactions, fired) ==
            result(should, d1, transactions, fired,
                   IF fired
                   THEN observe(d1, [local |-> TRUE,
                                     delta |-> localDelta(d.yjsText, d1.yjsText)], id)
                   ELSE NoCallback(d1))
        end(should, d1, transactions) ==
            commit(should, d1, transactions,
                   observerEvents(transactions, sub.observing) > 0)
        run(should, d1) ==
            IF sub.attached
            THEN end(should, d1, transact(d1.writes, d1.effective))
            ELSE end(should, withoutDoc(d, d1), <<>>)
        decide(should) == run(should, IF should THEN doUpdate(d, event, TRUE) ELSE d)
    IN decide(event.full \/ shouldApply(d.changeSets, event.changes))

\* update(event) for a change list that shouldApply accepts, when Y.Text call
\* number `call` of the first change throws (1: delete, 2: insert): the mirror
\* has the change, the Y.Text has the calls made before, and the observer is
\* called for the local transaction as the transaction ends
updateThrowing(d, event, call) ==
    LET splice(change, n) ==
            [d EXCEPT !.offsets = <<>>,
                      !.text = substring(d.text, 0, change.start) \o change.text
                                   \o substringFrom(d.text, change.end),
                      !.yjsText = IF call = 2 THEN yDelete(@, n[1], n[2] - n[1]) ELSE @,
                      !.writes = @ + call,
                      !.effective = IF call = 2
                                    THEN @ + yChanging(d.yjsText, n[1], n[2] - n[1], <<>>)
                                    ELSE @]
        first(change) ==
            splice(change, countNormalizedOffsets(d.text, change.start, change.end))
    IN first(Head(sort(event.changes)))

\* the editor applying a list of edits to its buffer
editorApply(t, changes) == spliceChanges(t, sort(changes), 0)

removeAt(s, i) == SubSeq(s, 1, i - 1) \o SubSeq(s, i + 1, Len(s))

\* _changeSets.indexOf(item) and splice(index, 1)
removeChangeSet(sets, id) ==
    IF \E i \in 1..Len(sets) : sets[i].id = id
    THEN removeAt(sets, CHOOSE i \in 1..Len(sets) : sets[i].id = id)
    ELSE sets

-----------------------------------------------------------------------------
(* YTextChangeTracker *)

RECURSIVE applyTextChangesFrom(_, _, _, _)
applyTextChangesFrom(t, changes, lastModifiedOffset, spans) ==
    IF changes = <<>>
    THEN [threw |-> FALSE, text |-> spans \o substringFrom(t, lastModifiedOffset)]
    ELSE LET change == Head(changes) IN
         IF change.start < lastModifiedOffset
         THEN [threw |-> TRUE, text |-> <<>>]
         ELSE applyTextChangesFrom(t, Tail(changes), change.end,
                  spans
                  \o (IF change.start > lastModifiedOffset
                      THEN substring(t, lastModifiedOffset, change.start)
                      ELSE <<>>)
                  \o change.text)

applyTextChangesUnchecked(t, changes) ==
    [threw |-> FALSE, text |-> spliceChanges(t, changes, 0)]

\* [threw |-> TRUE] stands for throw new Error('Overlapping edit')
applyTextChanges(t, changes) == applyTextChangesFrom(t, changes, 0, <<>>)

RECURSIVE trackerShouldApplyFrom(_, _)
trackerShouldApplyFrom(sets, changes) ==
    IF sets = <<>> THEN "true"
    ELSE LET r == applyTextChanges(Head(sets).document, changes) IN
         IF r.threw THEN "throw"
         ELSE IF r.text = Head(sets).after THEN "false"
         ELSE trackerShouldApplyFrom(Tail(sets), changes)

\* YTextChangeTracker.shouldApply: "true", "false", or "throw" when
\* applyTextChanges throws out of it
trackerShouldApply(sets, changes) == trackerShouldApplyFrom(sets, changes)

-----------------------------------------------------------------------------
(* Inputs of the document: editor changes and remote deltas *)

\* the texts one change or one delta run inserts: nothing or one character
InsTexts(alphabet) == {<<>>} \cup {<<c>> : c \in alphabet}

\* one change of the editor's own buffer t, as its change event reports it:
\* one character typed, or one character deleted or overwritten
UserChanges(t) ==
    {c \in [start : 0..Len(t), end : 0..Len(t), text : InsTexts(Chars)] :
        /\ c.end - c.start \in {0, 1}
        /\ ~(c.start = c.end /\ c.text = <<>>)
        /\ Len(t) - (c.end - c.start) + Len(c.text) <= MaxLen}

\* one run of a remote delta: retain ret, then insert ins and delete del
Segs(avail, first) ==
    {g \in [ret : 0..avail, del : 0..1, ins : InsTexts(RemoteChars),
            insFirst : BOOLEAN] :
        /\ g.ret + g.del <= avail
        /\ (first \/ g.ret > 0)
        /\ (g.del > 0 \/ g.ins # <<>>)
        /\ (g.insFirst \/ (g.del > 0 /\ g.ins # <<>>))}

RECURSIVE SegLists(_, _, _)
SegLists(avail, k, first) ==
    IF k = 0 THEN {<<>>}
    ELSE {<<>>} \cup
         UNION {{<<g>> \o rest : rest \in SegLists(avail - g.ret - g.del, k - 1, FALSE)} :
                g \in Segs(avail, first)}

SegDelta(g) ==
    (IF g.ret > 0 THEN <<Retain(g.ret)>> ELSE <<>>)
    \o (IF g.ins # <<>> /\ g.insFirst THEN <<Insert(g.ins)>> ELSE <<>>)
    \o (IF g.del > 0 THEN <<Delete(g.del)>> ELSE <<>>)
    \o (IF g.ins # <<>> /\ ~g.insFirst THEN <<Insert(g.ins)>> ELSE <<>>)

RECURSIVE SegsDelta(_)
SegsDelta(gs) == IF gs = <<>> THEN <<>> ELSE SegDelta(Head(gs)) \o SegsDelta(Tail(gs))

\* the deltas a remote transaction can make on the Y.Text y
RemoteDeltas(y) ==
    {SegsDelta(gs) : gs \in SegLists(Len(y), MaxSegs, TRUE) \ {<<>>}}

-----------------------------------------------------------------------------
(* State machine of one document bound to an editor *)

Doc == DocOf(text, yjsText, offsets, textLength, normalizedLength, changeSets)

SetDoc(d) ==
    /\ text' = d.text
    /\ yjsText' = d.yjsText
    /\ offsets' = d.offsets
    /\ textLength' = d.textLength
    /\ normalizedLength' = d.normalizedLength
    /\ changeSets' = d.changeSets

NoOp == [op |-> "init", changes |-> <<>>, delta |-> <<>>, str |-> <<>>, should |-> TRUE,
         writes |-> 0, hasCR |-> FALSE, fired |-> FALSE, pre |-> <<>>, id |-> 0,
         effective |-> 0, transactions |-> <<>>, events |-> 0, threw |-> FALSE]

Frame(d, cbs) == <<d.text, d.offsets, d.textLength, d.normalizedLength, d.changeSets, cbs>>

\* the extension's state for a document opened with text t: editor buffer and
\* Y.Text equal, nothing in flight
EngOf(t) ==
    [doc |-> t, ytext |-> t, changeSets |-> <<>>, tasks |-> <<>>, queue |-> <<>>,
     answers |-> <<>>, events |-> <<>>, applied |-> <<>>, throttle |-> FALSE,
     holders |-> 0, waiters |-> 0, resyncing |-> FALSE, nextId |-> 1, remotes |-> 0,
     rejected |-> {}, fires |-> 0, typed |-> 0, readonly |-> FALSE,
     permissionChanges |-> 0, closed |-> FALSE,
     thrown |-> 0,
     last |-> [op |-> "init", id |-> 0, result |-> TRUE, attempts |-> 0, threw |-> FALSE,
               caught |-> FALSE, wrote |-> FALSE, source |-> "none", event |-> 0,
               tracked |-> FALSE, resyncing |-> FALSE, collides |-> FALSE, calls |-> 0,
               transactions |-> <<>>]]

TrkInit == [changeSets |-> <<>>, pending |-> {}, nextId |-> 1, op |-> "init",
            delta |-> <<>>, document |-> <<>>,
            changes |-> <<>>, result |-> "none"]

\* no applyChanges call was made
AgentIdle == [called |-> FALSE]

\* no service process has a document
SvcIdle == [started |-> FALSE]

\* no Monaco instance has registered its model
MonIdle == [started |-> FALSE]

\* no extension instance has registered a document
RegIdle == [started |-> FALSE]

\* no configuration was read
CfgIdle == [loaded |-> FALSE]

\* yjsText.observe(this.observer) in the constructor
Subscribed == [observing |-> TRUE, disposed |-> FALSE, attached |-> TRUE]

disposeKeepsObserver(sub) == [sub EXCEPT !.disposed = TRUE]

\* dispose(): this._yjsText.unobserve(this.observer)
dispose(sub) == [sub EXCEPT !.observing = FALSE, !.disposed = TRUE]

\* constructor: _text = yjsText.toString(), nothing cached, no change sets;
\* the editor shows the same text
DocInit ==
    /\ yjsText \in Strings(RemoteChars, MaxLen - 2)
    /\ text = yjsText
    /\ offsets = <<>>
    /\ textLength = Undefined
    /\ normalizedLength = Undefined
    /\ changeSets = <<>>
    /\ callbacks = <<>>
    /\ editorText = text
    /\ nextId = 1
    /\ edits = 0
    /\ hasCRAtConstruction = includesCR(text)
    /\ last = NoOp
    /\ subscription = Subscribed
    /\ agent = AgentIdle
    /\ svc = SvcIdle
    /\ cfg = CfgIdle
    /\ reg = RegIdle
    /\ mon = MonIdle

\* the constructor on a Y.Text that belongs to no Y.Doc, which reads as ""
DocDetached ==
    /\ yjsText = <<>>
    /\ text = yjsText
    /\ offsets = <<>>
    /\ textLength = Undefined
    /\ normalizedLength = Undefined
    /\ changeSets = <<>>
    /\ callbacks = <<>>
    /\ editorText = text
    /\ nextId = 1
    /\ edits = 0
    /\ hasCRAtConstruction = includesCR(text)
    /\ last = NoOp
    /\ subscription = [Subscribed EXCEPT !.attached = FALSE]
    /\ agent = AgentIdle
    /\ svc = SvcIdle
    /\ cfg = CfgIdle
    /\ reg = RegIdle
    /\ mon = MonIdle

\* the effects of update(event) on the document and on the callbacks
UpdateStep(opName, event) ==
    \E r \in {update(Doc, event, nextId, subscription)} :
        /\ SetDoc(r.d)
        /\ callbacks' = IF r.invoked
                        THEN Append(callbacks, [id |-> nextId, changes |-> r.delivered,
                                                applied |-> FALSE])
                        ELSE callbacks
        /\ nextId' = IF r.invoked THEN nextId + 1 ELSE nextId
        /\ last' = [NoOp EXCEPT !.op = opName,
                                !.changes = event.changes,
                                !.str = event.str,
                                !.should = r.should,
                                !.writes = r.d.writes,
                                !.effective = r.d.effective,
                                !.transactions = r.transactions,
                                !.events = r.events,
                                !.fired = r.fired,
                                !.pre = IF r.fired THEN Frame(r.pre, callbacks) ELSE <<>>]

\* the user edits the editor buffer; the editor's change event calls update(changes)
EditorChange ==
    /\ edits < MaxEdits
    /\ \E c \in UserChanges(editorText) :
        /\ editorText' = editorApply(editorText, <<c>>)
        /\ UpdateStep("update", [full |-> FALSE, str |-> <<>>, changes |-> <<c>>])
    /\ edits' = edits + 1
    /\ UNCHANGED <<hasCRAtConstruction, trk, eng, subscription, agent, svc, cfg, reg, mon>>

\* the editor replaces its whole buffer; update is called with the full text
EditorFullText ==
    /\ edits < MaxEdits
    /\ edits = 0
    /\ \E s \in Strings(Chars, MaxLen - 1) :
        /\ editorText' = s
        /\ UpdateStep("fulltext", [full |-> TRUE, str |-> s, changes |-> <<>>])
    /\ edits' = edits + 1
    /\ UNCHANGED <<hasCRAtConstruction, trk, eng, subscription, agent, svc, cfg, reg, mon>>

\* a remote transaction changes the Y.Text; the observer runs up to the callback
RemoteEvent ==
    /\ subscription.observing => nextId <= MaxEvents
    /\ \E delta \in RemoteDeltas(yjsText) :
        \E r \in {IF subscription.observing
                 THEN observe([Doc EXCEPT !.yjsText = applyDelta(yjsText, delta)],
                              [local |-> FALSE, delta |-> delta], nextId)
                 ELSE NoCallback([Doc EXCEPT !.yjsText = applyDelta(yjsText, delta)])} :
           /\ Len(r.d.yjsText) <= MaxLen
           /\ Len(r.d.text) <= MaxLen
           /\ SetDoc(r.d)
           /\ callbacks' = IF r.invoked
                           THEN Append(callbacks, [id |-> nextId, changes |-> r.delivered,
                                                   applied |-> FALSE])
                           ELSE callbacks
           /\ nextId' = IF r.invoked THEN nextId + 1 ELSE nextId
           /\ last' = [NoOp EXCEPT !.op = IF subscription.observing THEN "remote"
                                          ELSE "unobserved",
                                   !.changes = r.delivered, !.delta = delta,
                                   !.hasCR = r.hasCR, !.id = nextId]
    /\ UNCHANGED <<editorText, edits, hasCRAtConstruction, trk, eng, subscription, agent, svc, cfg, reg, mon>>

\* the orders in which the editor reports an applied edit in its change event:
\* as delivered or, when no two changes start at the same offset, reversed
reportOrders(changes) ==
    IF \A i, j \in 1..Len(changes) : i # j => changes[i].start # changes[j].start
    THEN {changes, reverse(changes)}
    ELSE {changes}

\* the editor applies the oldest delivered edit and reports it in a change event
EditorApply ==
    /\ \E i \in 1..Len(callbacks) :
        /\ ~callbacks[i].applied
        /\ \A j \in 1..(i - 1) : callbacks[j].applied
        /\ \E echo \in reportOrders(callbacks[i].changes) :
           \E r \in {update(Doc, [full |-> FALSE, str |-> <<>>, changes |-> echo], nextId,
                             subscription)} :
           \E marked \in {[callbacks EXCEPT ![i].applied = TRUE]} :
               /\ editorText' = editorApply(editorText, callbacks[i].changes)
               /\ SetDoc(r.d)
               /\ callbacks' = IF r.invoked
                               THEN Append(marked, [id |-> nextId, changes |-> r.delivered,
                                                    applied |-> FALSE])
                               ELSE marked
               /\ nextId' = IF r.invoked THEN nextId + 1 ELSE nextId
               /\ last' = [NoOp EXCEPT !.op = "echo", !.changes = echo, !.should = r.should,
                                       !.writes = r.d.writes, !.fired = r.fired,
                                       !.effective = r.d.effective, !.events = r.events,
                                       !.transactions = r.transactions,
                                       !.pre = IF r.fired THEN Frame(r.pre, marked) ELSE <<>>,
                                       !.id = callbacks[i].id]
    /\ UNCHANGED <<edits, hasCRAtConstruction, trk, eng, subscription, agent, svc, cfg, reg, mon>>

\* the callback's promise resolves: observe continues after the await
CallbackResolved ==
    /\ \E i \in 1..Len(callbacks) :
        /\ callbacks[i].applied
        /\ changeSets' = removeChangeSet(changeSets, callbacks[i].id)
        /\ callbacks' = removeAt(callbacks, i)
        /\ last' = [NoOp EXCEPT !.op = "resolved", !.id = callbacks[i].id]
    /\ UNCHANGED <<yjsText, text, offsets, textLength, normalizedLength, editorText,
                   nextId, edits, hasCRAtConstruction, trk, eng, subscription, agent, svc, cfg, reg, mon>>

\* the callback's promise rejects: the await throws and observe ends there
CallbackRejected ==
    /\ \E i \in 1..Len(callbacks) :
        /\ callbacks' = removeAt(callbacks, i)
        /\ last' = [NoOp EXCEPT !.op = "rejected", !.id = callbacks[i].id]
    /\ UNCHANGED <<yjsText, text, offsets, textLength, normalizedLength, changeSets,
                   editorText, nextId, edits, hasCRAtConstruction, trk, eng, subscription, agent, svc, cfg, reg, mon>>

\* update() is called with a list of two changes, in any order and overlapping
\* or not; `edits` counts the changes
BatchChanges(t) ==
    {c \in [start : 0..Len(t), end : 0..Len(t), text : InsTexts({"a"})] :
        /\ c.start <= c.end
        /\ ~(c.start = c.end /\ c.text = <<>>)}

EditorBatch ==
    /\ edits + 2 <= MaxEdits
    /\ \E c \in BatchChanges(editorText), e \in BatchChanges(editorText) :
        /\ editorText' = editorApply(editorText, <<c, e>>)
        /\ Len(editorText') <= MaxLen
        /\ UpdateStep("batch", [full |-> FALSE, str |-> <<>>, changes |-> <<c, e>>])
        /\ Len(text') <= MaxLen
        /\ Len(yjsText') <= MaxLen
    /\ edits' = edits + 2
    /\ UNCHANGED <<hasCRAtConstruction, trk, eng, subscription, agent, svc, cfg, reg, mon>>

\* the user edits the editor buffer and a Y.Text call of update(changes) throws
EditorChangeThrowing ==
    /\ edits < MaxEdits
    /\ \E c \in UserChanges(editorText), call \in {1, 2} :
        /\ shouldApply(changeSets, <<c>>)
        /\ editorText' = editorApply(editorText, <<c>>)
        /\ \E d \in {updateThrowing(Doc, [full |-> FALSE, str |-> <<>>, changes |-> <<c>>],
                                     call)} :
           \E events \in {observerEvents(transact(d.writes, d.effective),
                                         subscription.observing)} :
            /\ SetDoc(d)
            /\ last' = [NoOp EXCEPT !.op = "updateThrew", !.changes = <<c>>,
                                    !.writes = d.writes, !.effective = d.effective,
                                    !.transactions = transact(d.writes, d.effective),
                                    !.events = events,
                                    !.fired = events > 0,
                                    !.pre = IF events > 0
                                            THEN Frame(d, callbacks) ELSE <<>>,
                                    !.threw = TRUE]
    /\ edits' = edits + 1
    /\ UNCHANGED <<callbacks, nextId, hasCRAtConstruction, trk, eng, subscription, agent, svc, cfg, reg, mon>>

\* dispose() is called on the document
Dispose ==
    /\ ~subscription.disposed
    /\ subscription' = dispose(subscription)
    /\ last' = [NoOp EXCEPT !.op = "dispose"]
    /\ UNCHANGED <<yjsText, text, offsets, textLength, normalizedLength, changeSets,
                   callbacks, editorText, nextId, edits, hasCRAtConstruction, trk, eng,
                   agent, svc, cfg, reg, mon>>

Init == DocInit /\ trk = TrkInit /\ eng = EngOf(<<>>)

Next ==
    \/ EditorChange
    \/ EditorFullText
    \/ RemoteEvent
    \/ EditorApply
    \/ CallbackResolved

Spec == Init /\ [][Next]_vars

NextRejecting == Next \/ CallbackRejected

NextCalls == Next \/ EditorBatch \/ EditorChangeThrowing

\* the document with every way update() can be called and can end
SpecCalls == Init /\ [][NextCalls]_vars


SpecRejecting == Init /\ [][NextRejecting]_vars

NextDispose ==
    \/ RemoteEvent
    \/ EditorApply
    \/ CallbackResolved
    \/ Dispose

\* the document from construction to dispose() and after, with remote events
SpecDispose == Init /\ [][NextDispose]_vars

-----------------------------------------------------------------------------
(* Offset and position queries of the document *)

\* what Math.min and a subtraction give when an operand is undefined
NaN == 0 - 2

isNumber(x) == x # Undefined /\ x # NaN

mathMin(a, b) == IF isNumber(a) /\ isNumber(b) THEN Min(a, b) ELSE NaN

minus(a, b) == IF isNumber(a) /\ isNumber(b) THEN a - b ELSE NaN

normalizedOffsetNoDelta(lineOffsets, offset) ==
    findLineOffset(lineOffsets, offset, "offset").offsets.normalized

\* normalizedOffset on the line table that getLineOffsets() returns
normalizedOffset(lineOffsets, offset) ==
    LET lineOffset == findLineOffset(lineOffsets, offset, "offset").offsets
    IN lineOffset.normalized + (offset - lineOffset.offset)

\* offsetAt(position, key, max): max is the value the caller read from the
\* field before the call, the line table is fetched inside
offsetAt(d, position, key, max) ==
    LET at(d1) ==
            [d |-> d1,
             result |-> IF position.line >= Len(d1.offsets) THEN max
                        ELSE IF position.line < 0 THEN 0
                        ELSE IF position.character <= 0
                             THEN keyOf(d1.offsets[position.line + 1], key)
                             ELSE mathMin(keyOf(d1.offsets[position.line + 1], key)
                                              + position.character, max)]
    IN at(getLineOffsets(d))

originalOffsetAt(d, position) == offsetAt(d, position, "offset", d.textLength)

normalizedOffsetAt(d, position) == offsetAt(d, position, "normalized", d.normalizedLength)

RECURSIVE ensureBeforeEOL(_, _, _)
ensureBeforeEOL(t, offset, lineOffset) ==
    IF isNumber(offset) /\ offset > lineOffset /\ offset - 1 < Len(t) /\ isEOL(t[offset])
    THEN ensureBeforeEOL(t, offset - 1, lineOffset)
    ELSE offset

\* positionAt(offset); a comparison with an offset that is not a number is false
positionAt(d, offset) ==
    LET at(d1, line) ==
            [d |-> d1,
             result |-> [line |-> line,
                         character |-> minus(ensureBeforeEOL(d1.text, offset,
                                                             d1.offsets[line + 1].offset),
                                             d1.offsets[line + 1].offset)]]
        find(d1) ==
            IF Len(d1.offsets) = 0
            THEN [d |-> d1, result |-> [line |-> 0, character |-> offset]]
            ELSE at(d1, (IF isNumber(offset)
                         THEN findLow(d1.offsets, offset, "offset", 0, Len(d1.offsets))
                         ELSE Len(d1.offsets)) - 1)
    IN find(getLineOffsets(d))

Positions == [line : (0 - 1)..(MaxLen + 1), character : (0 - 1)..(MaxLen + 1)]

\* originalOffset(n), and normalizedOffset of its result
QueryOriginalOffset ==
    /\ \E n \in 0..MaxLen :
       \E d1 \in {getLineOffsets(Doc)} :
       \E o \in {originalOffset(d1.offsets, n)} :
        /\ SetDoc(d1)
        /\ last' = [op |-> "originalOffset", arg |-> n, result |-> o,
                    back |-> normalizedOffset(d1.offsets, o)]
    /\ UNCHANGED <<callbacks, editorText, nextId, edits, hasCRAtConstruction, trk, eng, subscription, agent, svc, cfg, reg, mon>>

\* normalizedOffset(o), and originalOffset of its result
QueryNormalizedOffset ==
    /\ \E o \in 0..MaxLen :
       \E d1 \in {getLineOffsets(Doc)} :
       \E n \in {normalizedOffset(d1.offsets, o)} :
        /\ SetDoc(d1)
        /\ last' = [op |-> "normalizedOffset", arg |-> o, result |-> n,
                    back |-> originalOffset(d1.offsets, n)]
    /\ UNCHANGED <<callbacks, editorText, nextId, edits, hasCRAtConstruction, trk, eng, subscription, agent, svc, cfg, reg, mon>>

\* positionAt(o)
QueryPositionAt ==
    /\ \E o \in 0..MaxLen :
       \E r \in {positionAt(Doc, o)} :
        /\ SetDoc(r.d)
        /\ last' = [op |-> "positionAt", arg |-> o, result |-> r.result]
    /\ UNCHANGED <<callbacks, editorText, nextId, edits, hasCRAtConstruction, trk, eng, subscription, agent, svc, cfg, reg, mon>>

\* originalOffsetAt(p), and positionAt of its result
QueryOriginalOffsetAt ==
    /\ \E p \in Positions :
       \E r \in {originalOffsetAt(Doc, p)} :
       \E b \in {positionAt(r.d, r.result)} :
        /\ SetDoc(b.d)
        /\ last' = [op |-> "originalOffsetAt", arg |-> p, result |-> r.result,
                    back |-> b.result, max |-> textLength]
    /\ UNCHANGED <<callbacks, editorText, nextId, edits, hasCRAtConstruction, trk, eng, subscription, agent, svc, cfg, reg, mon>>

\* normalizedOffsetAt(p)
QueryNormalizedOffsetAt ==
    /\ \E p \in Positions :
       \E r \in {normalizedOffsetAt(Doc, p)} :
        /\ SetDoc(r.d)
        /\ last' = [op |-> "normalizedOffsetAt", arg |-> p, result |-> r.result,
                    max |-> normalizedLength]
    /\ UNCHANGED <<callbacks, editorText, nextId, edits, hasCRAtConstruction, trk, eng, subscription, agent, svc, cfg, reg, mon>>

NextQueries ==
    \/ EditorChange
    \/ EditorFullText
    \/ QueryOriginalOffset
    \/ QueryNormalizedOffset
    \/ QueryPositionAt
    \/ QueryOriginalOffsetAt
    \/ QueryNormalizedOffsetAt

\* the document with its offset and position queries between updates
SpecQueries == Init /\ [][NextQueries]_vars

-----------------------------------------------------------------------------
(* State machine of one YTextChangeTracker: applyChanges calls in flight and *)
(* shouldApply calls                                                         *)

TrackerChars == {"a", "b"}

TrackerChanges ==
    {c \in [start : 0..(MaxLen - 1), end : 0..(MaxLen - 1), text : InsTexts({"b"})] :
        c.start <= c.end /\ ~(c.start = c.end /\ c.text = <<>>)}

\* change lists of one or two changes, in any order, overlapping or not
TrackerChangeLists ==
    {<<c>> : c \in TrackerChanges} \cup {<<c, e>> : c \in TrackerChanges, e \in TrackerChanges}

\* the document with no remote event, no edit and no callback
DocIdle ==
    /\ yjsText = <<>>
    /\ text = <<>>
    /\ offsets = <<>>
    /\ textLength = Undefined
    /\ normalizedLength = Undefined
    /\ changeSets = <<>>
    /\ callbacks = <<>>
    /\ editorText = <<>>
    /\ nextId = 1
    /\ edits = 0
    /\ hasCRAtConstruction = FALSE
    /\ last = NoOp
    /\ subscription = Subscribed
    /\ agent = AgentIdle
    /\ svc = SvcIdle
    /\ cfg = CfgIdle
    /\ reg = RegIdle
    /\ mon = MonIdle

\* applyChanges(changes, document, apply) up to and including the call of apply
TrackerApplyChanges ==
    /\ trk.nextId <= MaxEvents
    /\ \E document \in Strings(TrackerChars, MaxLen - 1), changes \in TrackerChangeLists :
        LET after == applyTextChanges(document, changes) IN
        trk' = IF after.threw
               THEN [trk EXCEPT !.op = "applyChangesThrew", !.changes = changes,
                                !.result = "throw"]
               ELSE [trk EXCEPT !.changeSets = Append(@, [id |-> trk.nextId,
                                                          changes |-> changes,
                                                          document |-> document,
                                                          after |-> after.text]),
                                !.pending = @ \cup {trk.nextId},
                                !.nextId = @ + 1,
                                !.op = "applyChanges",
                                !.changes = changes,
                                !.result = "none"]
    /\ UNCHANGED docVars

\* apply's promise resolves: applyChanges continues after the await
TrackerApplyResolved ==
    /\ \E id \in trk.pending :
        trk' = [trk EXCEPT !.changeSets = removeChangeSet(@, id),
                           !.pending = @ \ {id},
                           !.op = "resolved", !.changes = <<>>, !.result = "none"]
    /\ UNCHANGED docVars

\* apply's promise rejects: the await throws and applyChanges ends there
TrackerApplyRejected ==
    /\ \E id \in trk.pending :
        trk' = [trk EXCEPT !.pending = @ \ {id},
                           !.op = "rejected", !.changes = <<>>, !.result = "none"]
    /\ UNCHANGED docVars

\* shouldApply(changes)
TrackerShouldApply ==
    /\ \E changes \in TrackerChangeLists :
        trk' = [trk EXCEPT !.op = "shouldApply", !.changes = changes,
                           !.result = trackerShouldApply(trk.changeSets, changes)]
    /\ UNCHANGED docVars

\* applyDelta(delta, document, apply) up to and including the call of apply
TrackerApplyDelta ==
    /\ trk.nextId <= MaxEvents
    /\ \E document \in Strings(TrackerChars, MaxLen - 1) :
       \E delta \in RemoteDeltas(document) :
       \E changes \in {trackerApplyDelta(delta)} :
       \E after \in {applyTextChanges(document, changes)} :
        trk' = IF after.threw
               THEN [trk EXCEPT !.op = "applyDeltaThrew", !.changes = changes,
                                !.delta = delta, !.document = document,
                                !.result = "throw"]
               ELSE [trk EXCEPT !.changeSets = Append(@, [id |-> trk.nextId,
                                                          changes |-> changes,
                                                          document |-> document,
                                                          after |-> after.text]),
                                !.pending = @ \cup {trk.nextId},
                                !.nextId = @ + 1,
                                !.op = "applyDelta",
                                !.changes = changes,
                                !.delta = delta, !.document = document,
                                !.result = "none"]
    /\ UNCHANGED docVars

TrackerStart == DocIdle /\ trk = TrkInit /\ eng = EngOf(<<>>)

TrackerNext ==
    \/ TrackerApplyChanges
    \/ TrackerApplyResolved
    \/ TrackerApplyRejected
    \/ TrackerShouldApply

SpecTracker == TrackerStart /\ [][TrackerNext]_vars

DeltaNext ==
    \/ TrackerApplyDelta
    \/ TrackerApplyResolved

SpecDelta == TrackerStart /\ [][DeltaNext]_vars

-----------------------------------------------------------------------------
(* One text document of the editor extension's CollaborationInstance: the      *)
(* Y.Text observer, applyEdit, updateTextDocument and the resync throttle      *)

MaxRemote == 2
MaxRejectedTasks == 1
MaxFires == 2
MaxTyped == 1

\* calls of vscode.workspace.applyEdit that throw in a run
MaxThrown == 1

\* changes of the session's permissions in a run
MaxPermissionChanges == 1

\* remote transactions in a run in which the permissions change
MaxReadonlyRemote == 1

maxAttempts == 20

retryAlways(attempts) == TRUE

\* while (!success && attempts++ < maxAttempts), after a rejected attempt
retry(attempts) == attempts < maxAttempts

scheduleThrottleNever(pending) == pending

\* throttle(): the debounce timer is pending afterwards
scheduleThrottle(pending) == TRUE

canAcquireAlways(holders) == TRUE

\* yjsMutex.runExclusive runs its callback at once only when nobody holds the mutex
canAcquire(holders) == holders = 0

\* the offset of document.positionAt(offset): clamped into the document, and
\* moved before the "\r" when it lies between the "\r" and the "\n" of a line
\* break
textDocumentOffset(document, offset) ==
    LET clamped == Clamp(offset, Len(document)) IN
    IF clamped > 0 /\ clamped < Len(document)
           /\ document[clamped] = CR /\ document[clamped + 1] = LF
    THEN clamped - 1
    ELSE clamped

\* TextDocument.applyEdits on the edits toTextEdits makes of the changes:
\* offsets become positions of the document, the edits are sorted by start,
\* and overlapping edits throw
applyEdits(document, changes) ==
    applyTextChanges(document,
        sort([i \in 1..Len(changes) |->
                 Change(textDocumentOffset(document, changes[i].start),
                        textDocumentOffset(document, changes[i].end), changes[i].text)]))

RECURSIVE pkgShouldApply(_, _)
pkgShouldApply(sets, changes) ==
    IF sets = <<>> THEN "true"
    ELSE IF applyEdits(Head(sets).document, changes).threw
              \/ applyEdits(Head(sets).document, Head(sets).changes).threw
         THEN "throw"
         ELSE IF applyEdits(Head(sets).document, changes)
                     = applyEdits(Head(sets).document, Head(sets).changes)
              THEN "false"
              ELSE pkgShouldApply(Tail(sets), changes)

\* updateTextDocument's transaction: delete and insert per change, as listed
RECURSIVE ytextWrite(_, _)
ytextWrite(y, changes) ==
    IF changes = <<>> THEN y
    ELSE ytextWrite(yInsert(yDelete(y, Head(changes).start,
                                    Head(changes).end - Head(changes).start),
                            Head(changes).start, Head(changes).text),
                    Tail(changes))

\* the Y.Text calls of ytextWrite that change the type
RECURSIVE ytextChanging(_, _)
ytextChanging(y, changes) ==
    IF changes = <<>> THEN 0
    ELSE yChanging(y, Head(changes).start, Head(changes).end - Head(changes).start,
                   Head(changes).text)
         + ytextChanging(ytextWrite(y, <<Head(changes)>>), Tail(changes))

taskOf(e, id) == e.tasks[CHOOSE i \in 1..Len(e.tasks) : e.tasks[i].id = id]

withTask(tasks, t) == [i \in 1..Len(tasks) |-> IF tasks[i].id = t.id THEN t ELSE tasks[i]]

withoutTask(tasks, id) == SelectSeq(tasks, LAMBDA t : t.id # id)

\* what the last step leaves on record, before the step fills in its own fields
EngLast(e, opName, id) ==
    [e.last EXCEPT !.op = opName, !.id = id, !.result = TRUE, !.attempts = 0,
                   !.threw = FALSE, !.caught = FALSE, !.wrote = FALSE,
                   !.source = "none", !.event = 0, !.tracked = FALSE,
                   !.resyncing = FALSE, !.collides = FALSE, !.calls = 0,
                   !.transactions = <<>>]

\* the edit callback of the observer: the WorkspaceEdit has a delete of the
\* range positionAt(start)..positionAt(end) for a change without text and an
\* insert at positionAt(start) for any other change; positionAt clamps the
\* offset into the document
observerEdit(document, changes) ==
    [i \in 1..Len(changes) |->
        IF changes[i].text = <<>>
        THEN Change(Clamp(changes[i].start, Len(document)),
                    Clamp(changes[i].end, Len(document)), <<>>)
        ELSE Change(Clamp(changes[i].start, Len(document)),
                    Clamp(changes[i].start, Len(document)), changes[i].text)]

\* createFullDocumentEdit(document, content): one replacement of the range from
\* the start of the document to the end of its last line
createFullDocumentEdit(document, content) == <<Change(0, Len(document), content)>>

\* the WorkspaceEdit computed at the first attempt only and used again in
\* every retry
workspaceEditOnce(e, t) ==
    IF t.st = "entered"
    THEN IF t.kind = "edit" THEN observerEdit(e.doc, t.changes)
         ELSE createFullDocumentEdit(e.doc, t.content)
    ELSE t.edit

\* edit(changes) in the loop of applyEdit: the WorkspaceEdit is computed from
\* the document as it is when the attempt is made
workspaceEdit(e, t) ==
    IF t.kind = "edit" THEN observerEdit(e.doc, t.changes)
    ELSE createFullDocumentEdit(e.doc, t.content)

\* one pass of the loop of applyEdit up to its await: the edit is computed and
\* vscode.workspace.applyEdit is called with it
attempt(e, t) ==
    [e EXCEPT !.tasks = withTask(@, [t EXCEPT !.edit = workspaceEdit(e, t),
                                              !.st = "requested"]),
              !.queue = Append(@, t.id)]

\* applyEdit is entered and makes its first attempt
request(e, kind, changes, content) ==
    attempt([e EXCEPT !.tasks = Append(@, [id |-> e.nextId, kind |-> kind,
                                           changes |-> changes, content |-> content,
                                           edit |-> <<>>, attempts |-> 1,
                                           st |-> "entered"]),
                      !.nextId = @ + 1],
            [id |-> e.nextId, kind |-> kind, changes |-> changes, content |-> content,
             edit |-> <<>>, attempts |-> 1, st |-> "entered"])

\* the callback given to runExclusive, up to its await
resyncCallback(e) ==
    IF ~e.closed /\ e.ytext # e.doc
    THEN request([e EXCEPT !.resyncing = TRUE, !.holders = @ + 1], "resync", <<>>, e.ytext)
    ELSE e

\* the mutex is free: the callbacks that wait for it run in turn until one awaits
RECURSIVE release(_)
release(e) ==
    IF e.waiters = 0 THEN e
    ELSE IF ~e.closed /\ e.ytext # e.doc
         THEN resyncCallback([e EXCEPT !.waiters = @ - 1])
         ELSE release([e EXCEPT !.waiters = @ - 1])

runExclusive(e) ==
    IF canAcquire(e.holders) THEN resyncCallback(e) ELSE [e EXCEPT !.waiters = @ + 1]

\* one insert or one delete by a remote peer
EngDeltas(y) ==
    {(IF k > 0 THEN <<Retain(k)>> ELSE <<>>) \o <<Insert(<<"b">>)>> : k \in 0..Len(y)}
    \cup {(IF k > 0 THEN <<Retain(k)>> ELSE <<>>) \o <<Delete(1)>> : k \in 0..(Len(y) - 1)}

otherVars == <<yjsText, text, offsets, textLength, normalizedLength, changeSets,
               callbacks, editorText, nextId, edits, hasCRAtConstruction, last, trk,
               subscription, agent, svc, cfg, reg, mon>>

\* the ranges of an edit as the editor applies them to its buffer and reports
\* them in its change event: a position past the end of the buffer is the end
reported(document, changes) ==
    [i \in 1..Len(changes) |->
        Change(Clamp(changes[i].start, Len(document)),
               Clamp(changes[i].end, Len(document)), changes[i].text)]

\* a remote transaction changes the Y.Text: the observer records the change set
\* in the tracker and enters applyEdit, or returns at once when the document
\* is not open or on a host whose workspace is readonly
EngRemoteEvent ==
    /\ eng.remotes < MaxRemote
    /\ \E delta \in EngDeltas(eng.ytext) :
        /\ Len(applyDelta(eng.ytext, delta)) <= MaxLen
        /\ eng' = [(IF eng.readonly \/ eng.closed
                    THEN [eng EXCEPT !.ytext = applyDelta(@, delta), !.remotes = @ + 1]
                    ELSE
                    request([eng EXCEPT !.ytext = applyDelta(@, delta),
                                       !.changeSets =
                                           Append(@, [id |-> eng.nextId,
                                                      changes |-> applyDeltaChanges(delta),
                                                      document |-> eng.doc]),
                                       !.remotes = @ + 1],
                           "edit", applyDeltaChanges(delta), <<>>))
                   EXCEPT !.last = EngLast(eng, "observer", eng.nextId)]
    /\ UNCHANGED otherVars

\* the editor takes the oldest vscode.workspace.applyEdit call and applies the
\* WorkspaceEdit of that call, computed when the call was made, to its buffer
EngEditorAccepts ==
    /\ eng.queue # <<>>
    /\ \E t \in {taskOf(eng, Head(eng.queue))} :
       \E applied \in {reported(eng.doc, t.edit)} :
       \E newDoc \in {editorApply(eng.doc, applied)} :
        eng' = [eng EXCEPT
                   !.queue = Tail(@),
                   !.answers = Append(@, t.id),
                   !.tasks = withTask(@, [t EXCEPT !.st = "accepted"]),
                   !.doc = newDoc,
                   !.applied = IF t.kind = "edit" THEN Append(@, t.id) ELSE @,
                   !.events = IF newDoc = eng.doc THEN @
                              ELSE Append(@, [source |-> t.kind, id |-> t.id,
                                              changes |-> applied]),
                   !.last = EngLast(eng, "accepted", t.id)]
    /\ UNCHANGED otherVars

\* the editor takes the oldest vscode.workspace.applyEdit call and rejects it
EngEditorRejects ==
    /\ eng.queue # <<>>
    /\ \E t \in {taskOf(eng, Head(eng.queue))} :
        /\ t.id \in eng.rejected \/ Cardinality(eng.rejected) < MaxRejectedTasks
        /\ eng' = [eng EXCEPT
                   !.queue = Tail(@),
                   !.answers = Append(@, t.id),
                   !.tasks = withTask(@, [t EXCEPT !.st = "rejected"]),
                   !.rejected = @ \cup {t.id},
                   !.last = EngLast(eng, "rejected", t.id)]
    /\ UNCHANGED otherVars

\* the call of vscode.workspace.applyEdit that the editor has taken throws,
\* or its promise rejects
EngEditorThrows ==
    /\ eng.queue # <<>>
    /\ eng.thrown < MaxThrown
    /\ \E t \in {taskOf(eng, Head(eng.queue))} :
        eng' = [eng EXCEPT
                   !.queue = Tail(@),
                   !.answers = Append(@, t.id),
                   !.tasks = withTask(@, [t EXCEPT !.st = "threw"]),
                   !.thrown = @ + 1,
                   !.last = EngLast(eng, "threw", t.id)]
    /\ UNCHANGED otherVars

applyEditRethrows(st) == st = "threw"

\* try { ... } catch { return false; } in the loop of applyEdit: an error of
\* the editor's call does not leave applyEdit
applyEditThrows(st) == FALSE

resyncingKept(resyncing) == resyncing

\* this.resyncing.delete(path)
resyncingDelete(resyncing) == FALSE

\* applyEdit has returned `result` after `attempts` attempts: the rest of the
\* observer (the change set leaves the tracker, throttle()) or of the resync
\* callback (resyncing.delete, the mutex is released)
returned(e, t, result) ==
    [(IF t.kind = "edit"
      THEN [e EXCEPT !.tasks = withoutTask(@, t.id),
                     !.changeSets = removeChangeSet(@, t.id),
                     !.throttle = scheduleThrottle(@)]
      ELSE release([e EXCEPT !.tasks = withoutTask(@, t.id),
                             !.resyncing = resyncingDelete(@),
                             !.holders = @ - 1]))
     EXCEPT !.last = [EngLast(e, IF t.kind = "edit" THEN "observerDone" ELSE "resyncDone",
                              t.id)
                      EXCEPT !.result = result, !.attempts = t.attempts,
                             !.caught = t.st = "threw",
                             !.threw = applyEditThrows(t.st)]]

\* the promise of the oldest answered applyEdit call settles: applyEdit
\* returns false from its catch block when the call threw, and else its loop
\* goes on; the edit of a resync is undefined when the document is no longer
\* found, and applyEdit returns true
EngResume ==
    /\ eng.answers # <<>>
    /\ \E t \in {taskOf(eng, Head(eng.answers))} :
       \E e \in {[eng EXCEPT !.answers = Tail(@)]} :
        eng' = IF t.st = "accepted" THEN returned(e, t, TRUE)
               ELSE IF t.st = "threw" THEN returned(e, t, FALSE)
               ELSE IF retry(t.attempts)
                    THEN IF t.kind = "resync" /\ eng.closed
                         THEN returned(e, t, TRUE)
                         ELSE
                         [attempt(e, [t EXCEPT !.attempts = @ + 1])
                          EXCEPT !.last = [EngLast(eng, "retry", t.id)
                                           EXCEPT !.attempts = t.attempts + 1]]
                    ELSE returned(e, t, FALSE)
    /\ UNCHANGED otherVars

\* the oldest change event of the editor reaches updateTextDocument
EngChangeEvent ==
    /\ eng.events # <<>>
    /\ \E ev \in {Head(eng.events)} :
       \E write \in {~eng.resyncing /\ pkgShouldApply(eng.changeSets, ev.changes) = "true"} :
        /\ write => Len(ytextWrite(eng.ytext, ev.changes)) <= MaxLen
        /\ eng' = [eng EXCEPT
                   !.events = Tail(@),
                   !.ytext = IF write THEN ytextWrite(@, ev.changes) ELSE @,
                   !.throttle = IF write THEN scheduleThrottle(@) ELSE @,
                   !.last = [EngLast(eng, "changeEvent", 0)
                             EXCEPT !.wrote = write, !.source = ev.source,
                                    !.calls = IF write THEN 2 * Len(ev.changes) ELSE 0,
                                    !.transactions =
                                        IF write
                                        THEN transact(2 * Len(ev.changes),
                                                      ytextChanging(eng.ytext, ev.changes))
                                        ELSE <<>>,
                                    !.event = ev.id,
                                    !.tracked = \E i \in 1..Len(eng.changeSets) :
                                                    eng.changeSets[i].id = ev.id,
                                    !.resyncing = eng.resyncing,
                                    !.collides = pkgShouldApply(eng.changeSets, ev.changes)
                                                     = "false",
                                    !.threw = ~eng.resyncing
                                              /\ pkgShouldApply(eng.changeSets, ev.changes)
                                                     = "throw"]]
    /\ UNCHANGED otherVars

\* the debounce timer fires: the resync callback is handed to the mutex
EngThrottleFires ==
    /\ eng.throttle
    /\ eng.fires < MaxFires
    /\ eng' = [runExclusive([eng EXCEPT !.throttle = FALSE, !.fires = @ + 1])
               EXCEPT !.last = EngLast(eng, "throttle", 0)]
    /\ UNCHANGED otherVars

EngineStart ==
    /\ DocIdle
    /\ trk = TrkInit
    /\ eng \in {EngOf(t) : t \in Strings({"a"}, 1)}

EngineNext ==
    \/ EngRemoteEvent
    \/ EngEditorAccepts
    \/ EngEditorRejects
    \/ EngEditorThrows
    \/ EngResume
    \/ EngChangeEvent
    \/ EngThrottleFires

SpecEngine == EngineStart /\ [][EngineNext]_vars

Seq2(S) == {<<x, y>> : x \in S, y \in S}

\* one character typed or deleted by the user of the editor
EngUserChanges(t) ==
    {Change(c.start, c.end, c.text) :
        c \in {u \in [start : 0..Len(t), end : 0..Len(t), text : InsTexts({"b"})] :
                  /\ u.end - u.start \in {0, 1}
                  /\ (u.end = u.start) # (u.text = <<>>)
                  /\ Len(t) - (u.end - u.start) + Len(u.text) <= MaxLen}}

\* the user edits the buffer: the editor queues the change event
EngUserTypes ==
    /\ eng.typed < MaxTyped
    /\ \E c \in EngUserChanges(eng.doc) :
        eng' = [eng EXCEPT
                   !.typed = @ + 1,
                   !.doc = editorApply(@, <<c>>),
                   !.events = Append(@, [source |-> "user", id |-> 0, changes |-> <<c>>]),
                   !.last = EngLast(eng, "typed", 0)]
    /\ UNCHANGED otherVars

\* the editor closes the document, findDocument no longer finds it, and
\* onDidCloseTextDocument runs: asyncTrackers.delete(uri) removes the tracker
\* of the document, so that updateTextDocument gets a new and empty one; the
\* observer, whose disposable is stored under the protocol path, stays on the
\* Y.Text with the old tracker and returns at once while the document is closed
EngDocumentCloses ==
    /\ ~eng.closed
    /\ eng' = [eng EXCEPT !.closed = TRUE, !.changeSets = <<>>,
                          !.last = EngLast(eng, "closed", 0)]
    /\ UNCHANGED otherVars

\* setPermissions(permissions), and the room's onPermissions handler: the
\* permissions of the session are replaced
EngSetPermissions ==
    /\ eng.permissionChanges < MaxPermissionChanges
    /\ \E readonly \in BOOLEAN \ {eng.readonly} :
        eng' = [eng EXCEPT !.readonly = readonly,
                           !.permissionChanges = @ + 1,
                           !.last = EngLast(eng, "setPermissions", 0)]
    /\ UNCHANGED otherVars

ResyncNext ==
    \/ EngRemoteEvent
    \/ EngEditorAccepts
    \/ EngEditorRejects
    \/ EngEditorThrows
    \/ EngResume
    \/ EngChangeEvent
    \/ EngThrottleFires
    \/ EngDocumentCloses

SpecResync == EngineStart /\ [][ResyncNext]_vars

\* the editor answers every vscode.workspace.applyEdit call and the awaiting
\* applyEdit resumes when its promise has settled
SpecResyncFair ==
    /\ SpecResync
    /\ WF_vars(EngEditorAccepts \/ EngEditorRejects \/ EngEditorThrows)
    /\ WF_vars(EngResume)

\* two changes of one edit of the user that do not overlap, with offsets in the
\* buffer before the edit, listed in ascending or in descending order
EngUserBatches(t) ==
    {<<c, d>> : c \in EngUserChanges(t), d \in EngUserChanges(t)}
    \cap {b \in Seq2(EngUserChanges(t)) :
             /\ (b[1].end <= b[2].start /\ b[1].start < b[2].start)
                \/ (b[2].end <= b[1].start /\ b[2].start < b[1].start)
             /\ Len(editorApply(t, b)) <= MaxLen}

\* the user makes one edit with two changes: the editor queues one change
\* event that lists both
EngUserBatch ==
    /\ eng.typed <= MaxTyped
    /\ \E b \in EngUserBatches(eng.doc) :
        eng' = [eng EXCEPT
                   !.typed = MaxTyped + 1,
                   !.doc = editorApply(@, b),
                   !.events = Append(@, [source |-> "user", id |-> 0, changes |-> b]),
                   !.last = EngLast(eng, "typed", 0)]
    /\ UNCHANGED otherVars

BatchNext ==
    \/ EngUserTypes
    \/ EngUserBatch
    \/ EngChangeEvent
    \/ EngThrottleFires
    \/ EngEditorAccepts
    \/ EngResume

SpecBatch == EngineStart /\ [][BatchNext]_vars

\* a document object that is about to be used, on a Y.Text of a Y.Doc or on
\* one without, or an extension instance with the text "a" that is
OutboundStart ==
    /\ trk = TrkInit
    /\ \/ DocInit /\ eng = EngOf(<<>>)
       \/ DocDetached /\ eng = EngOf(<<>>)
       \/ DocIdle /\ eng = EngOf(<<"a">>)

\* the two writers of local edits, one at a time: every way update() is called
\* on the document object, before and after its dispose() and on a Y.Text
\* without a Y.Doc (which no remote transaction reaches), and the change
\* events of the editor that reach updateTextDocument of the extension
OutboundNext ==
    \/ eng = EngOf(<<>>) /\ subscription.attached /\ ~subscription.disposed /\ NextCalls
    \/ eng = EngOf(<<>>) /\ subscription.attached /\ edits = 0 /\ Dispose
    \/ eng = EngOf(<<>>) /\ subscription.attached /\ subscription.disposed
           /\ (EditorChange \/ EditorFullText \/ EditorBatch)
    \/ eng = EngOf(<<>>) /\ ~subscription.attached
           /\ (EditorChange \/ EditorFullText \/ EditorBatch)
    \/ DocIdle /\ BatchNext

SpecOutbound == OutboundStart /\ [][OutboundNext]_vars

\* the instance of a host whose workspace is readonly for the guests
ReadonlyStart ==
    /\ DocIdle
    /\ trk = TrkInit
    /\ eng \in {[EngOf(t) EXCEPT !.readonly = readonly] :
                  t \in Strings({"a"}, 1), readonly \in BOOLEAN}

ReadonlyNext ==
    \/ EngSetPermissions
    \/ eng.remotes < MaxReadonlyRemote /\ EngRemoteEvent
    \/ EngUserTypes
    \/ EngChangeEvent
    \/ EngThrottleFires
    \/ EngEditorAccepts
    \/ EngEditorRejects
    \/ EngResume

SpecReadonly == ReadonlyStart /\ [][ReadonlyNext]_vars

TypingNext ==
    \/ EngRemoteEvent
    \/ EngEditorAccepts
    \/ EngResume
    \/ EngChangeEvent
    \/ EngThrottleFires
    \/ EngUserTypes

SpecTyping == EngineStart /\ [][TypingNext]_vars

-----------------------------------------------------------------------------
(* The agent's applyChanges: text regions returned by the model are located  *)
(* in the document by their context lines and sent as edits                  *)

AgentMaxLen == 4
AgentMaxSecond == 2

\* text.split('\n'): the lines of a text, at least one
RECURSIVE splitFrom(_, _, _)
splitFrom(t, i, cur) ==
    IF i > Len(t) THEN <<cur>>
    ELSE IF t[i] = LF THEN <<cur>> \o splitFrom(t, i + 1, <<>>)
    ELSE splitFrom(t, i + 1, Append(cur, t[i]))

split(t) == splitFrom(t, 1, <<>>)

\* lines.join('\n')
RECURSIVE join(_)
join(lines) ==
    IF lines = <<>> THEN <<>>
    ELSE IF Len(lines) = 1 THEN lines[1]
    ELSE lines[1] \o <<LF>> \o join(Tail(lines))

\* array.slice(from, to)
slice(s, from, to) == SubSeq(s, from + 1, to)

\* the first line of docLines, from line `from` on, at which the block occurs
matchesOf(docLines, block, from) ==
    {line \in from..(Len(docLines) - Len(block)) :
        slice(docLines, line, line + Len(block)) = block}

firstOf(lines) == CHOOSE line \in lines : \A other \in lines : line <= other

\* the loop that finds the longest prefix of changeLines that occurs in docLines
RECURSIVE findPrefix(_, _, _)
findPrefix(docLines, changeLines, prefixLenInCl) ==
    IF prefixLenInCl < 1 THEN [docReplaceStartLine |-> 0, changeSliceStart |-> 0]
    ELSE IF matchesOf(docLines, slice(changeLines, 0, prefixLenInCl), 0) # {}
         THEN [docReplaceStartLine |->
                   firstOf(matchesOf(docLines, slice(changeLines, 0, prefixLenInCl), 0))
                       + prefixLenInCl,
               changeSliceStart |-> prefixLenInCl]
         ELSE findPrefix(docLines, changeLines, prefixLenInCl - 1)

\* the loop that finds the longest suffix of changeLines that occurs in docLines
\* at or after line `from`
RECURSIVE findSuffix(_, _, _, _)
findSuffix(docLines, changeLines, from, suffixLenInCl) ==
    IF suffixLenInCl < 1
    THEN [docReplaceEndLine |-> Len(docLines), changeSliceEnd |-> Len(changeLines)]
    ELSE IF matchesOf(docLines,
                      slice(changeLines, Len(changeLines) - suffixLenInCl, Len(changeLines)),
                      from) # {}
         THEN [docReplaceEndLine |->
                   firstOf(matchesOf(docLines,
                                     slice(changeLines, Len(changeLines) - suffixLenInCl,
                                           Len(changeLines)),
                                     from)),
               changeSliceEnd |-> Len(changeLines) - suffixLenInCl]
         ELSE findSuffix(docLines, changeLines, from, suffixLenInCl - 1)

locateChangeInDocument(docLines, changeLines) ==
    LET result(pre, suf) ==
            [startLine |-> pre.docReplaceStartLine,
             endLine |-> suf.docReplaceEndLine,
             replacementText |-> join(slice(changeLines, pre.changeSliceStart,
                                            suf.changeSliceEnd)),
             prefixLines |-> pre.changeSliceStart,
             suffixLines |-> Len(changeLines) - suf.changeSliceEnd]
        suffix(pre) ==
            result(pre,
                   findSuffix(docLines, changeLines, pre.docReplaceStartLine,
                              Min(Len(changeLines) - pre.changeSliceStart,
                                  Max(0, Len(docLines) - pre.docReplaceStartLine))))
    IN suffix(findPrefix(docLines, changeLines, Min(Len(changeLines), Len(docLines))))

\* calculateOffset(text, line): the offset at which the line starts
RECURSIVE offsetOfLine(_, _)
offsetOfLine(lines, line) ==
    IF line = 0 THEN 0
    ELSE offsetOfLine(lines, line - 1) + Len(lines[line]) + 1

calculateOffset(t, line) == offsetOfLine(split(t), line)

\* the loop of applyChanges; calls are the documentSync.applyEdit calls made
RECURSIVE applyChangesLoop(_, _, _, _, _)
applyChangesLoop(currentContent, currentLines, changes, calls, locations) ==
    LET edit(location, startOffset, endOffset) ==
            applyChangesLoop(
                substring(currentContent, 0, startOffset) \o location.replacementText
                    \o substringFrom(currentContent, endOffset),
                split(substring(currentContent, 0, startOffset) \o location.replacementText
                          \o substringFrom(currentContent, endOffset)),
                Tail(changes),
                Append(calls, [text |-> location.replacementText, offset |-> startOffset,
                               length |-> endOffset - startOffset]),
                Append(locations, location))
        step(location) ==
            IF location.endLine > location.startLine
            THEN edit(location, calculateOffset(currentContent, location.startLine),
                      calculateOffset(currentContent, location.endLine) - 1)
            ELSE applyChangesLoop(currentContent, currentLines, Tail(changes), calls,
                                  Append(locations, location))
    IN IF changes = <<>>
       THEN [currentContent |-> currentContent, calls |-> calls, locations |-> locations]
       ELSE step(locateChangeInDocument(currentLines, split(Head(changes))))

applyChanges(docContent, docLines, changes) ==
    applyChangesLoop(docContent, docLines, changes, <<>>, <<>>)

\* IDocumentSync.applyEdit as the document receives it
RECURSIVE syncEdits(_, _)
syncEdits(content, calls) ==
    IF calls = <<>> THEN content
    ELSE syncEdits(substring(content, 0, Head(calls).offset) \o Head(calls).text
                       \o substringFrom(content, Head(calls).offset + Head(calls).length),
                   Tail(calls))

AgentDocs == Strings({"a", LF}, AgentMaxLen)

AgentChanges == Strings({"a", "b", LF}, AgentMaxLen)

AgentChangeLists ==
    {<<>>} \cup {<<c>> : c \in AgentChanges}
    \cup {<<c, e>> : c \in AgentChanges, e \in Strings({"a", "b", LF}, AgentMaxSecond)}

\* the document the agent was started on
AgentOpen ==
    /\ ~agent.called
    /\ ~("doc" \in DOMAIN agent)
    /\ \E doc \in AgentDocs : agent' = [called |-> FALSE, doc |-> doc]
    /\ UNCHANGED <<yjsText, text, offsets, textLength, normalizedLength, changeSets,
                   callbacks, editorText, nextId, edits, hasCRAtConstruction, last, trk,
                   eng, subscription, svc, cfg, reg, mon>>

\* applyChanges(docPath, docContent, docContent.split('\n'), changes, documentSync)
AgentApplyChanges ==
    /\ ~agent.called
    /\ "doc" \in DOMAIN agent
    /\ \E changes \in AgentChangeLists :
       \E r \in {applyChanges(agent.doc, split(agent.doc), changes)} :
        agent' = [called |-> TRUE, doc |-> agent.doc, changes |-> changes,
                  calls |-> r.calls, locations |-> r.locations,
                  currentContent |-> r.currentContent,
                  synced |-> syncEdits(agent.doc, r.calls)]
    /\ UNCHANGED <<yjsText, text, offsets, textLength, normalizedLength, changeSets,
                   callbacks, editorText, nextId, edits, hasCRAtConstruction, last, trk,
                   eng, subscription, svc, cfg, reg, mon>>

AgentStart == DocIdle /\ trk = TrkInit /\ eng = EngOf(<<>>)

AgentNext == AgentOpen \/ AgentApplyChanges

SpecAgent == AgentStart /\ [][AgentNext]_vars

-----------------------------------------------------------------------------
(* Two service processes, host and guest, with one shared text document:     *)
(* registerYjsObject, updateYjsObjectContent and the Y.Doc updates between   *)
(* them                                                                      *)

SvcMaxLen == 3
MaxGuestUpdates == 2

notifiesAlways(local) == TRUE

\* the observer of registerYjsObject returns at once for a local transaction
notifies(local) == ~local

\* the edits the observer makes of an event's delta
RECURSIVE svcEditsFrom(_, _, _)
svcEditsFrom(delta, index, edits_) ==
    IF delta = <<>> THEN edits_
    ELSE IF Head(delta).op = "retain"
         THEN svcEditsFrom(Tail(delta), index + Head(delta).n, edits_)
         ELSE IF Head(delta).op = "insert"
              THEN svcEditsFrom(Tail(delta), index + Len(Head(delta).s),
                                Append(edits_, [startOffset |-> index,
                                                endOffset |-> Undefined,
                                                text |-> Head(delta).s]))
              ELSE svcEditsFrom(Tail(delta), index,
                                Append(edits_, [startOffset |-> index,
                                                endOffset |-> index + Head(delta).n,
                                                text |-> <<>>]))

svcEdits(delta) == svcEditsFrom(delta, 0, <<>>)

\* if (change.endOffset): neither absent nor 0
hasEndOffset(change) == change.endOffset # Undefined /\ change.endOffset # 0

\* the transaction of updateYjsObjectContent on the Y.Text y
RECURSIVE updateYjsObjectContent(_, _)
updateYjsObjectContent(y, changes) ==
    IF changes = <<>> THEN y
    ELSE updateYjsObjectContent(
             yInsert(IF hasEndOffset(Head(changes))
                     THEN yDelete(y, Head(changes).startOffset,
                                  Head(changes).endOffset - Head(changes).startOffset)
                     ELSE y,
                     Head(changes).startOffset, Head(changes).text),
             Tail(changes))

\* the delta of the transaction that one change makes on the Y.Text y
changeDelta(y, change) ==
    (IF Min(change.startOffset, Len(y)) > 0
     THEN <<Retain(Min(change.startOffset, Len(y)))>> ELSE <<>>)
    \o (IF hasEndOffset(change)
           /\ Min(change.endOffset, Len(y)) > Min(change.startOffset, Len(y))
        THEN <<Delete(Min(change.endOffset, Len(y)) - Min(change.startOffset, Len(y)))>>
        ELSE <<>>)
    \o (IF change.text # <<>> THEN <<Insert(change.text)>> ELSE <<>>)

\* a delta made on the guest's own unsynced content, as it applies to a Y.Text
\* in which that content comes after `before` characters of the other peer
shifted(delta, before) ==
    IF before = 0 \/ delta = <<>> THEN delta
    ELSE IF Head(delta).op = "retain"
         THEN <<Retain(Head(delta).n + before)>> \o Tail(delta)
         ELSE <<Retain(before)>> \o delta

\* the changes a guest's client sends for a document it shows as y
GuestChanges(y) ==
    {c \in [startOffset : 0..(Len(y) + 1), endOffset : {Undefined} \cup 0..Len(y),
            text : InsTexts({"b"})] :
        /\ c.endOffset # Undefined => c.endOffset >= c.startOffset
        /\ Len(updateYjsObjectContent(y, <<c>>)) <= SvcMaxLen}

\* the host has opened the document with its text: the Y.Text holds it, the
\* observer is registered, and the update is on its way to the guest, which
\* has not opened the document
SvcOf(t, guestFirst) ==
    [started |-> TRUE, hostText |-> t, guestText |-> <<>>, hostContent |-> t,
     guestFirst |-> guestFirst, guestOpened |-> FALSE, guestSynced |-> FALSE,
     toGuest |-> <<[delta |-> IF t = <<>> THEN <<>> ELSE <<Insert(t)>>]>>,
     toHost |-> <<>>, hostInbox |-> <<>>, guestInbox |-> <<>>, sent |-> 0]

\* the guest's registerYjsObject: the document is opened at the host and the
\* observer is registered
SvcGuestOpens ==
    /\ svc.started
    /\ ~svc.guestOpened
    /\ svc' = [svc EXCEPT !.guestOpened = TRUE]

\* the host's update reaches the guest's Y.Doc; its content is placed before or
\* after what the guest has inserted meanwhile
SvcDeliverToGuest ==
    /\ svc.started
    /\ svc.toGuest # <<>>
    /\ \E delta \in {shifted(Head(svc.toGuest).delta,
                            IF svc.guestFirst THEN Len(svc.guestText) ELSE 0)} :
        svc' = [svc EXCEPT
                   !.toGuest = Tail(@),
                   !.guestSynced = TRUE,
                   !.guestText = applyDelta(@, delta),
                   !.guestInbox = IF svc.guestOpened /\ delta # <<>> /\ notifies(FALSE)
                                  THEN Append(@, [cause |-> "host", id |-> 0,
                                                  edits |-> svcEdits(delta)])
                                  ELSE @]

\* the guest's client sends UpdateDocumentContent with a change that inserts or
\* deletes something: updateYjsObjectContent runs its transaction, the observer
\* is called for it, and the provider sends the update to the host
SvcGuestUpdates ==
    /\ svc.started
    /\ svc.guestOpened
    /\ svc.sent < MaxGuestUpdates
    /\ \E c \in GuestChanges(svc.guestText) :
       \E y \in {updateYjsObjectContent(svc.guestText, <<c>>)} :
        /\ hasEndOffset(c) \/ c.text # <<>>
        /\ \E i \in 1..Len(changeDelta(svc.guestText, c)) :
               changeDelta(svc.guestText, c)[i].op # "retain"
        /\ svc' = [svc EXCEPT
                      !.guestText = y,
                      !.sent = @ + 1,
                      !.toHost = Append(@, [id |-> svc.sent + 1,
                                            delta |-> changeDelta(svc.guestText, c),
                                            synced |-> svc.guestSynced,
                                            change |-> c]),
                      !.guestInbox = IF svc.guestOpened /\ notifies(TRUE)
                                     THEN Append(@, [cause |-> "guest", id |-> svc.sent + 1,
                                                     edits |-> svcEdits(changeDelta(
                                                                   svc.guestText, c))])
                                     ELSE @]

\* the guest's update reaches the host's Y.Doc: the observer sends the edits
\* to the host's client
SvcDeliverToHost ==
    /\ svc.started
    /\ svc.toHost # <<>>
    /\ \E m \in {Head(svc.toHost)} :
       \E delta \in {IF m.synced THEN m.delta
                     ELSE shifted(m.delta,
                                  IF svc.guestFirst THEN 0 ELSE Len(svc.hostContent))} :
        svc' = [svc EXCEPT
                   !.toHost = Tail(@),
                   !.hostText = applyDelta(@, delta),
                   !.hostInbox = IF notifies(FALSE)
                                 THEN Append(@, [cause |-> "guest", id |-> m.id,
                                                 edits |-> svcEdits(delta),
                                                 change |-> m.change,
                                                 before |-> svc.hostText,
                                                 after |-> applyDelta(svc.hostText, delta)])
                                 ELSE @]

svcFrame == <<yjsText, text, offsets, textLength, normalizedLength, changeSets,
              callbacks, editorText, nextId, edits, hasCRAtConstruction, last, trk,
              eng, subscription, agent, cfg, reg, mon>>

\* both processes are in the room and the host opens the document
SvcHostOpens ==
    /\ ~svc.started
    /\ \E t \in Strings({"a"}, SvcMaxLen - 2), guestFirst \in BOOLEAN :
        svc' = SvcOf(t, guestFirst)

SvcStart == DocIdle /\ trk = TrkInit /\ eng = EngOf(<<>>)

SvcNext ==
    \/ SvcHostOpens /\ UNCHANGED svcFrame
    \/ SvcGuestOpens /\ UNCHANGED svcFrame
    \/ SvcDeliverToGuest /\ UNCHANGED svcFrame
    \/ SvcGuestUpdates /\ UNCHANGED svcFrame
    \/ SvcDeliverToHost /\ UNCHANGED svcFrame

SpecService == SvcStart /\ [][SvcNext]_vars

\* the connection delivers every update the provider has sent
SpecServiceFair == SpecService /\ WF_vars(SvcDeliverToHost /\ UNCHANGED svcFrame)

-----------------------------------------------------------------------------
(* DefaultConfiguration: getValue on the object read from the configuration  *)
(* file. Keys are texts; an object is the set of its leaves, each leaf the    *)
(* path of property names that leads to it and the string or the empty object *)
(* found there.                                                               *)

MaxSegments == 3
MaxLeaves == 2

Dot == "."
Dash == "-"
EmptyObject == "{}"

\* key.split('.')
RECURSIVE splitDotsFrom(_, _, _)
splitDotsFrom(key, i, cur) ==
    IF i > Len(key) THEN <<cur>>
    ELSE IF key[i] = Dot THEN <<cur>> \o splitDotsFrom(key, i + 1, <<>>)
    ELSE splitDotsFrom(key, i + 1, Append(cur, key[i]))

splitDots(key) == splitDotsFrom(key, 1, <<>>)

\* segments.join(sep)
RECURSIVE joinWith(_, _)
joinWith(segments, sep) ==
    IF segments = <<>> THEN <<>>
    ELSE IF Len(segments) = 1 THEN segments[1]
    ELSE segments[1] \o <<sep>> \o joinWith(Tail(segments), sep)

\* key.replace(/-/g, '.')
toObjKey(key) == [i \in 1..Len(key) |-> IF key[i] = Dash THEN Dot ELSE key[i]]

\* object[key]: a configuration value, an object, or undefined
property(object, key) ==
    IF \E l \in object : l.path = <<key>> /\ l.value # EmptyObject
    THEN [kind |-> "value",
          value |-> (CHOOSE l \in object : l.path = <<key>>).value, object |-> {}]
    ELSE IF \E l \in object : Head(l.path) = key
         THEN [kind |-> "object", value |-> "",
               object |-> {[path |-> Tail(l.path), value |-> l.value] :
                              l \in {m \in object : Head(m.path) = key /\ Len(m.path) > 1}}]
         ELSE [kind |-> "undefined", value |-> "", object |-> {}]

NoValue == [defined |-> FALSE, value |-> ""]
ValueOf(v) == [defined |-> TRUE, value |-> v]

\* getFromConfigObject: the key itself, then the longest proper prefix of its
\* segments that names an object, in which the rest of the key is looked up
RECURSIVE getFromConfigObject(_, _)
RECURSIVE getFromPrefix(_, _, _)
getFromConfigObject(object, key) ==
    IF property(object, key).kind = "value"
    THEN ValueOf(property(object, key).value)
    ELSE getFromPrefix(object, splitDots(key), Len(splitDots(key)) - 1)

getFromPrefix(object, segments, i) ==
    IF i < 1 THEN NoValue
    ELSE IF property(object, joinWith(slice(segments, 0, i), Dot)).kind = "object"
         THEN getFromConfigObject(
                  property(object, joinWith(slice(segments, 0, i), Dot)).object,
                  joinWith(slice(segments, i, Len(segments)), Dot))
         ELSE getFromPrefix(object, segments, i - 1)

getFromConfig(configuration, key) == getFromConfigObject(configuration, toObjKey(key))

\* getValue(key) with no environment variable of that name and type 'string'
\* or none: String(value) of a string is the string
getValue(configuration, key) == getFromConfig(configuration, key)

Segments == {<<"a">>, <<"b">>}

RECURSIVE SegmentLists(_)
SegmentLists(n) ==
    IF n = 0 THEN {<<>>}
    ELSE SegmentLists(n - 1)
         \cup {Append(l, g) : l \in {m \in SegmentLists(n - 1) : Len(m) = n - 1},
                              g \in Segments}

\* the ways to cut a list of segments into consecutive non-empty groups
RECURSIVE Groupings(_)
Groupings(segments) ==
    IF segments = <<>> THEN {<<>>}
    ELSE UNION {{<<slice(segments, 0, i)>> \o rest :
                    rest \in Groupings(slice(segments, i, Len(segments)))} :
                i \in 1..Len(segments)}

\* the property paths of a configuration file: dot-separated names of up to
\* MaxSegments segments in all
ConfigPaths ==
    UNION {{[k \in 1..Len(g) |-> joinWith(g[k], Dot)] : g \in Groupings(l)} :
           l \in SegmentLists(MaxSegments) \ {<<>>}}

IsPrefix(p, q) == Len(p) <= Len(q) /\ SubSeq(q, 1, Len(p)) = p

\* the objects a JSON or YAML file can hold: no property is both a leaf and
\* an object
Leaves == [path : ConfigPaths, value : {"v", "w", EmptyObject}]

RECURSIVE ConfigurationsOf(_)
ConfigurationsOf(n) ==
    IF n = 0 THEN {{}}
    ELSE ConfigurationsOf(n - 1)
         \cup UNION {{c \cup {l} :
                         l \in {m \in Leaves : \A k \in c : /\ ~IsPrefix(k.path, m.path)
                                                             /\ ~IsPrefix(m.path, k.path)}} :
                     c \in ConfigurationsOf(n - 1)}

Configurations == ConfigurationsOf(MaxLeaves)

KebabKeys == {joinWith(l, Dash) : l \in SegmentLists(MaxSegments) \ {<<>>}}

\* initialize(): the configuration file is read
CfgInitialize ==
    /\ ~cfg.loaded
    /\ \E c \in Configurations :
        cfg' = [loaded |-> TRUE, configuration |-> c, called |-> FALSE]

\* one getValue(key) call
CfgGetValue ==
    /\ cfg.loaded
    /\ ~cfg.called
    /\ \E key \in KebabKeys :
        cfg' = [cfg EXCEPT !.called = TRUE] @@
               [key |-> key, result |-> getValue(cfg.configuration, key)]

cfgFrame == <<yjsText, text, offsets, textLength, normalizedLength, changeSets,
              callbacks, editorText, nextId, edits, hasCRAtConstruction, last, trk,
              eng, subscription, agent, svc, reg, mon>>

CfgStart == DocIdle /\ trk = TrkInit /\ eng = EngOf(<<>>)

CfgNext ==
    \/ CfgInitialize /\ UNCHANGED cfgFrame
    \/ CfgGetValue /\ UNCHANGED cfgFrame

SpecConfiguration == CfgStart /\ [][CfgNext]_vars

-----------------------------------------------------------------------------
(* Observer registration of the extension's documents: registerEditorEvents,
   registerTextDocument, pushDocumentDisposable, getAsyncTracker and the
   handler of onDidCloseTextDocument *)

\* calls of registerTextDocument in a run
MaxOpens == 4

\* non-local events of the Y.Text objects in a run
MaxRegEvents == 2

\* the files of the workspace folder "ws"
Files == {"x", "y"}

\* document.uri of a file of the workspace folder
UriOf(file) == [scheme |-> "file", path |-> <<"/", "ws", "/", file>>]

Uris == {UriOf(file) : file \in Files}

\* uri.toString(): the scheme, "://" and the path
uriToString(uri) == <<uri.scheme, "://">> \o uri.path

\* CollaborationUri.getProtocolPath(uri): the name of the workspace folder and
\* the path relative to it
getProtocolPath(uri) == SubSeq(uri.path, 2, Len(uri.path))

\* map.get(key) of a Map kept as a set of entries: the values under the key
entriesOf(map, key) == {e \in map : e.key = key}

\* this.asyncTrackers.get(key), {} when undefined
trackerOf(asyncTrackers, key) == {e.tracker : e \in entriesOf(asyncTrackers, key)}

\* the key under which the close handler looks up the document's disposables
closeKey(uri) == uriToString(uri)

\* no Y.Text event was delivered yet
NoRegEvent == [kind |-> "none"]

\* the CollaborationInstance after its construction, before registerEditorEvents
RegOf(isHost) ==
    [started |-> TRUE, registered |-> FALSE, disposed |-> FALSE, host |-> isHost,
     textDocuments |-> {}, observers |-> {}, documentDisposables |-> {},
     asyncTrackers |-> {}, nextObserver |-> 1, nextTracker |-> 1, events |-> 0,
     last |-> NoRegEvent]

\* registerTextDocument(document): the tracker of the uri is fetched or made,
\* the observer is subscribed to the Y.Text of the path and its unobserve is
\* pushed to the document disposables of the path
registerTextDocument(r, uri) ==
    LET key == uriToString(uri)
        path == getProtocolPath(uri)
        existing == trackerOf(r.asyncTrackers, key)
        tracker == IF existing = {} THEN r.nextTracker ELSE CHOOSE t \in existing : TRUE
    IN  [r EXCEPT !.asyncTrackers = @ \cup {[key |-> key, tracker |-> tracker]},
                  !.nextTracker = IF existing = {} THEN @ + 1 ELSE @,
                  !.observers = @ \cup {[id |-> r.nextObserver, path |-> path,
                                         uri |-> uri, tracker |-> tracker]},
                  !.documentDisposables = @ \cup {[key |-> path,
                                                   observer |-> r.nextObserver]},
                  !.nextObserver = @ + 1]

RECURSIVE registerAll(_, _)
\* vscode.workspace.textDocuments.forEach(document => registerTextDocument(document))
registerAll(r, uris) ==
    IF uris = <<>> THEN r
    ELSE registerAll(registerTextDocument(r, Head(uris)), Tail(uris))

\* the documents that may be open when the instance registers its handlers
OpenAtStart == {<<>>} \cup {<<u>> : u \in Uris}
               \cup {p \in {<<u, v>> : u \in Uris, v \in Uris} : p[1] # p[2]}

\* new CollaborationInstance(...) of a host or of a guest
RegCreate ==
    /\ ~reg.started
    /\ \E isHost \in BOOLEAN : reg' = RegOf(isHost)

\* registerEditorEvents(): the documents already open are registered
RegRegisterEditorEvents ==
    /\ reg.started /\ ~reg.registered /\ ~reg.disposed
    /\ \E uris \in OpenAtStart :
        reg' = [registerAll(reg, uris) EXCEPT
                    !.registered = TRUE,
                    !.textDocuments = {uris[i] : i \in 1..Len(uris)}]

\* onDidOpenTextDocument: the editor opened a document that was not open
RegDocumentOpens ==
    /\ reg.started /\ reg.registered /\ ~reg.disposed
    /\ reg.nextObserver <= MaxOpens
    /\ \E uri \in Uris \ reg.textDocuments :
        reg' = [registerTextDocument(reg, uri) EXCEPT !.textDocuments = @ \cup {uri}]

\* onDidCloseTextDocument: the disposables found under uri.toString() are
\* disposed, and the entries of that key are deleted from both maps
RegDocumentCloses ==
    /\ reg.started /\ reg.registered /\ ~reg.disposed
    /\ \E uri \in reg.textDocuments :
        \E key \in {closeKey(uri)} :
            reg' = [reg EXCEPT
                !.textDocuments = @ \ {uri},
                !.observers = {o \in @ : o.id \notin
                                  {d.observer : d \in entriesOf(reg.documentDisposables, key)}},
                !.documentDisposables = @ \ entriesOf(reg.documentDisposables, key),
                !.asyncTrackers = @ \ entriesOf(reg.asyncTrackers, key)]

\* a non-local transaction changes the Y.Text of a path: every observer
\* subscribed to it is called; an observer whose document is found applies the
\* delta to the editor through its own tracker
RegRemoteEvent ==
    /\ reg.started /\ reg.registered /\ ~reg.disposed
    /\ reg.events < MaxRegEvents
    /\ \E uri \in Uris :
        \E applying \in {{o \in reg.observers : /\ o.path = getProtocolPath(uri)
                                                /\ o.uri \in reg.textDocuments}} :
            reg' = [reg EXCEPT
                !.events = @ + 1,
                !.last = [kind |-> "event", uri |-> uri,
                          open |-> uri \in reg.textDocuments,
                          edits |-> Cardinality(applying),
                          recorded |-> {o.tracker : o \in applying},
                          consulted |-> trackerOf(reg.asyncTrackers, uriToString(uri))]]

\* dispose(): every document disposable is disposed and the map is cleared
RegDispose ==
    /\ reg.started /\ reg.registered /\ ~reg.disposed
    /\ reg' = [reg EXCEPT
                !.disposed = TRUE,
                !.observers = {o \in @ : o.id \notin
                                  {d.observer : d \in reg.documentDisposables}},
                !.documentDisposables = {}]

regFrame == <<yjsText, text, offsets, textLength, normalizedLength, changeSets,
              callbacks, editorText, nextId, edits, hasCRAtConstruction, last, trk,
              eng, subscription, agent, svc, cfg, mon>>

RegStart == DocIdle /\ trk = TrkInit /\ eng = EngOf(<<>>)

RegNext ==
    \/ RegCreate /\ UNCHANGED regFrame
    \/ RegRegisterEditorEvents /\ UNCHANGED regFrame
    \/ RegDocumentOpens /\ UNCHANGED regFrame
    \/ RegDocumentCloses /\ UNCHANGED regFrame
    \/ RegRemoteEvent /\ UNCHANGED regFrame
    \/ RegDispose /\ UNCHANGED regFrame

SpecRegistration == RegStart /\ [][RegNext]_vars

-----------------------------------------------------------------------------
(* The Monaco engine: one editor model and the Y.Text of its path, with
   registerTextDocument, registerTextObserver, createEditsFromTextEvent,
   updateTextDocument, the debounced resync and dispose of its
   CollaborationInstance *)

\* non-local Y.Text events in a run
MaxMonEvents == 1

\* edits of the Monaco user in a run
MaxMonTyped == 1

\* calls of setEditor, setFileName and followSelection in a run, after the
\* first setEditor
MaxMonCalls == 1

\* length of the model's text, of the Y.Text and of the file's content
\* when the editor is set
MonMaxLen == 1

\* the characters of the model's text when it is registered
MonChars == {"a"}

\* the deltas of a remote transaction on y that insert no line break
MonDeltas(y) ==
    {d \in RemoteDeltas(y) : \A i \in 1..Len(d) : \A j \in 1..Len(d[i].s) : d[i].s[j] # LF}

\* document.getPositionAt(offset) of a one-line model, as an offset: offsets
\* beyond the text give the last position
getPositionAt(document, offset) == Clamp(offset, Len(document))

\* index after a delete op is turned into an edit
indexAfterDeleteEdit(index, n) == index

RECURSIVE createEditsFrom(_, _, _, _)
createEditsFrom(delta, document, index, operations) ==
    IF delta = <<>> THEN operations
    ELSE LET op == Head(delta) IN
         IF op.op = "retain"
         THEN createEditsFrom(Tail(delta), document, index + op.n, operations)
         ELSE IF op.op = "insert"
              THEN createEditsFrom(Tail(delta), document, index + Len(op.s),
                       Append(operations, [start |-> getPositionAt(document, index),
                                      end |-> getPositionAt(document, index),
                                      text |-> op.s]))
              ELSE createEditsFrom(Tail(delta), document, indexAfterDeleteEdit(index, op.n),
                       Append(operations, [start |-> getPositionAt(document, index),
                                      end |-> getPositionAt(document, index + op.n),
                                      text |-> <<>>]))

\* createEditsFromTextEvent(textEvent, document)
createEditsFromTextEvent(delta, document) == createEditsFrom(delta, document, 0, <<>>)

\* the edits of one executeEdits call with their position in the call
indexed(operations) ==
    [i \in 1..Len(operations) |-> [start |-> operations[i].start, end |-> operations[i].end,
                              text |-> operations[i].text, sortIndex |-> i]]

\* the editor's ascending order of operations: by the end of the range, then
\* by its start, then by the position in the call
opBefore(a, b) ==
    \/ a.end < b.end
    \/ a.end = b.end /\ a.start < b.start
    \/ a.end = b.end /\ a.start = b.start /\ a.sortIndex < b.sortIndex

RECURSIVE insertOp(_, _)
insertOp(sorted, op) ==
    IF sorted = <<>> THEN <<op>>
    ELSE IF opBefore(op, Head(sorted)) THEN <<op>> \o sorted
         ELSE <<Head(sorted)>> \o insertOp(Tail(sorted), op)

RECURSIVE sortOpsAscending(_)
sortOpsAscending(ops) ==
    IF ops = <<>> THEN <<>>
    ELSE insertOp(sortOpsAscending(SubSeq(ops, 1, Len(ops) - 1)), ops[Len(ops)])

\* "Overlapping ranges are not allowed!": an operation starts before the end
\* of the operation sorted before it
overlapping(sorted) ==
    \E i \in 1..(Len(sorted) - 1) : sorted[i + 1].start < sorted[i].end

RECURSIVE applySorted(_, _, _)
\* the text made of the operations' texts and of the text between their
\* ranges, all ranges read in the text before the call
applySorted(document, sorted, from) ==
    IF sorted = <<>> THEN SubSeq(document, from + 1, Len(document))
    ELSE SubSeq(document, from + 1, Head(sorted).start) \o Head(sorted).text
         \o applySorted(document, Tail(sorted), Head(sorted).end)

\* editor.executeEdits(source, operations): one batch against the model's text
executeEdits(document, operations) ==
    LET sorted == sortOpsAscending(indexed(operations)) IN
    IF overlapping(sorted) THEN [threw |-> TRUE, text |-> document]
    ELSE [threw |-> FALSE, text |-> applySorted(document, sorted, 0)]

\* the protocol paths of the session: the path of the instance's own file
\* and the path of another file
MonPaths == {"p", "q"}

\* no observer is registered
NoPath == "none"

\* the Y.Text observer of registerTextObserver on the Y.Text of `path`: the
\* path is in `updates` while the edits are executed and stays there when
\* executeEdits throws; the content event of the edits finds yjsMutex taken
observer(m, path, delta) ==
    LET done == executeEdits(m.doc, createEditsFromTextEvent(delta, m.doc)) IN
    [m EXCEPT !.doc = done.text,
              !.updates = IF done.threw THEN @ \cup {path} ELSE @ \ {path},
              !.scheduled = IF done.threw THEN @ ELSE @ \cup {path}]

\* the changes of one edit of the Monaco user: one character typed or deleted
MonUserChanges(document) ==
    {[rangeOffset |-> k, rangeLength |-> 0, text |-> <<"c">>] : k \in 0..Len(document)}
    \cup {[rangeOffset |-> k, rangeLength |-> 1, text |-> <<>>] : k \in 0..(Len(document) - 1)}

\* a text with the range of the change replaced by its text; a range beyond
\* the end of the text ends with the text
replaced(t, change) ==
    SubSeq(t, 1, Clamp(change.rangeOffset, Len(t))) \o change.text
    \o SubSeq(t, Clamp(change.rangeOffset, Len(t))
                 + Min(change.rangeLength, Len(t) - Clamp(change.rangeOffset, Len(t))) + 1,
              Len(t))

\* updateTextDocument(event, document) for an event with one change: the
\* change is written to the Y.Text of the current path
updateTextDocument(m, change) ==
    IF m.currentPath \in m.updates THEN m
    ELSE [m EXCEPT !.ytext[m.currentPath] = replaced(@, change),
                   !.scheduled = @ \cup {m.currentPath}]

RECURSIVE contentChanged(_, _, _)
\* the content event of a change reaches every handler that
\* registerEditorEvents added with onDidChangeModelContent
contentChanged(m, change, handlers) ==
    IF handlers = 0 THEN m
    ELSE contentChanged(updateTextDocument(m, change), change, handlers - 1)

\* document.setValue(value): the model's text is replaced and the content
\* event of the replacement is fired
setValue(m, value) ==
    contentChanged([m EXCEPT !.doc = value],
                   [rangeOffset |-> 0, rangeLength |-> Len(m.doc), text |-> value],
                   m.handlers)

\* the start of the last line of the text, as an offset
lastLineStart(document) ==
    IF \E i \in 1..Len(document) : document[i] = LF
    THEN CHOOSE i \in 1..Len(document) :
             document[i] = LF /\ \A j \in (i + 1)..Len(document) : document[j] # LF
    ELSE 0

\* updateDocumentContent(document, newContent, path): one edit whose range
\* new monaco.Range(0, 0, lineCount, 0) the editor reads as the range from the
\* start of the model to the start of its last line
updateDocumentContent(m, newContent, path) ==
    [m EXCEPT !.doc = executeEdits(m.doc, <<[start |-> 0, end |-> lastLineStart(m.doc),
                                             text |-> newContent]>>).text,
              !.updates = @ \ {path}]

\* the delta of the host's transaction yjsText.delete(0, length);
\* yjsText.insert(0, text)
transactDelta(y, t) ==
    (IF Len(y) > 0 THEN <<Delete(Len(y))>> ELSE <<>>)
    \o (IF t # <<>> THEN <<Insert(t)>> ELSE <<>>)

\* registerTextObserver(path, document, yjsText): the observer registered
\* before is disposed and the new one is the only one
registerTextObserver(m, path) == [m EXCEPT !.observed = path]

\* registerTextDocument(document) up to its first await: a host writes the
\* model's text to the Y.Text of the file's path, which an observer of that
\* Y.Text sees, and registers the observer; a guest waits for readFile
monacoRegisterTextDocument(m) ==
    LET path == m.fileName
        delta == transactDelta(m.ytext[path], m.doc)
        written == [m EXCEPT !.currentPath = path, !.ytext[path] = m.doc]
    IN  IF m.host
        THEN registerTextObserver(
                 IF m.observed = path /\ delta # <<>> THEN observer(written, path, delta)
                 ELSE written, path)
        ELSE [m EXCEPT !.currentPath = path,
                       !.reading = Append(@, [path |-> path, text |-> m.doc])]

\* what the steps other than a remote event leave in `last`
MonLast(opName) ==
    [op |-> opName, path |-> NoPath, observed |-> FALSE, inSync |-> FALSE,
     threw |-> FALSE]

\* the Monaco instance after its construction without an editor: the file
\* is "myFile.txt", no path is current and nothing is registered
MonOf(isHost, t, yp, yq) ==
    [started |-> TRUE, host |-> isHost, doc |-> t,
     ytext |-> [path \in MonPaths |-> IF path = "p" THEN yp ELSE yq],
     fileName |-> "p", currentPath |-> NoPath, observed |-> NoPath,
     updates |-> {}, scheduled |-> {}, handlers |-> 0, reading |-> <<>>,
     events |-> 0, typed |-> 0, calls |-> 0,
     last |-> MonLast("create")]

\* setEditor(editor) on a new instance: registerEditorEvents calls
\* monacoRegisterTextDocument(model) and adds the content handler
MonRegisterTextDocument ==
    /\ ~mon.started
    /\ \E isHost \in BOOLEAN, t \in Strings(MonChars, MonMaxLen),
          yp \in Strings(MonChars, MonMaxLen), yq \in Strings(MonChars, MonMaxLen) :
        /\ isHost => yp = <<>>
        /\ mon' = [monacoRegisterTextDocument(MonOf(isHost, t, yp, yq)) EXCEPT
                       !.handlers = 1, !.last = MonLast("register")]

\* setEditor(editor) once more: the model is registered again and one more
\* content handler is added
MonSetEditor ==
    /\ mon.started
    /\ mon.calls < MaxMonCalls
    /\ mon' = [monacoRegisterTextDocument(mon) EXCEPT
                   !.handlers = @ + 1, !.calls = @ + 1,
                   !.last = MonLast("setEditor")]

\* setFileName(fileName), and handleFileChange for a renamed file: the model
\* is registered under the path of the file
MonSetFileName ==
    /\ mon.started
    /\ mon.calls < MaxMonCalls
    /\ \E fileName \in MonPaths :
        mon' = [monacoRegisterTextDocument([mon EXCEPT !.fileName = fileName]) EXCEPT
                    !.calls = @ + 1, !.last = MonLast("setFileName")]

\* followSelection(selection) of followUser or of an awareness change: the
\* path of the selection becomes current, its Y.Text is put into the editor
\* without propagation when the path changed, and the observer is registered
MonFollowSelection ==
    /\ mon.started
    /\ mon.calls < MaxMonCalls
    /\ \E path \in MonPaths :
        mon' = [registerTextObserver(mon, path) EXCEPT
                    !.currentPath = path,
                    !.doc = IF mon.currentPath # path THEN mon.ytext[path] ELSE @,
                    !.fileName = path,
                    !.calls = @ + 1,
                    !.last = MonLast("follow")]

\* readFile answers a guest: registerTextDocument resumes, sets the model to
\* the content when the text read before the wait differs from it, and
\* registers the observer on the path it was called for
MonReadFileAnswers ==
    /\ mon.started
    /\ \E i \in 1..Len(mon.reading), ytextContent \in Strings(MonChars, MonMaxLen) :
        \E m \in {IF mon.reading[i].text # ytextContent
                  THEN setValue(mon, ytextContent) ELSE mon} :
            mon' = [registerTextObserver(m, mon.reading[i].path) EXCEPT
                        !.reading = SubSeq(@, 1, i - 1) \o SubSeq(@, i + 1, Len(@)),
                        !.last = MonLast("readFile")]

\* a remote transaction changes the Y.Text of a path; the observer runs
\* when it is registered on that Y.Text
MonRemoteEvent ==
    /\ mon.started
    /\ mon.events < MaxMonEvents
    /\ \E path \in MonPaths :
        \E delta \in MonDeltas(mon.ytext[path]) :
            \E m \in {IF mon.observed = path THEN observer(mon, path, delta) ELSE mon} :
                mon' = [m EXCEPT
                    !.ytext[path] = applyDelta(@, delta),
                    !.events = @ + 1,
                    !.last = [op |-> "event", path |-> path,
                              observed |-> mon.observed = path,
                              inSync |-> mon.doc = mon.ytext[path],
                              threw |-> path \in m.updates /\ path \notin mon.updates]]

\* the user edits the model: every content handler runs updateTextDocument
MonUserEdits ==
    /\ mon.started
    /\ mon.typed < MaxMonTyped
    /\ \E change \in MonUserChanges(mon.doc) :
        \E m \in {contentChanged([mon EXCEPT !.doc = replaced(@, change)], change,
                                 mon.handlers)} :
            mon' = [m EXCEPT !.typed = @ + 1, !.last = MonLast("typed")]

\* the debounced callback of the throttle of a path runs
MonResync ==
    /\ mon.started
    /\ \E path \in mon.scheduled :
        \E m \in {IF mon.ytext[path] # mon.doc
                  THEN updateDocumentContent(mon, mon.ytext[path], path) ELSE mon} :
            mon' = [m EXCEPT !.scheduled = @ \ {path}, !.last = MonLast("resync")]

\* dispose(): the document disposables are disposed and cleared, the
\* observer is unsubscribed
MonDispose ==
    /\ mon.started
    /\ mon' = [mon EXCEPT !.observed = NoPath, !.last = MonLast("dispose")]

monFrame == <<yjsText, text, offsets, textLength, normalizedLength, changeSets,
              callbacks, editorText, nextId, edits, hasCRAtConstruction, last, trk,
              eng, subscription, agent, svc, cfg, reg>>

MonStart == DocIdle /\ trk = TrkInit /\ eng = EngOf(<<>>)

MonNext ==
    \/ MonRegisterTextDocument /\ UNCHANGED monFrame
    \/ MonSetEditor /\ UNCHANGED monFrame
    \/ MonSetFileName /\ UNCHANGED monFrame
    \/ MonFollowSelection /\ UNCHANGED monFrame
    \/ MonReadFileAnswers /\ UNCHANGED monFrame
    \/ MonRemoteEvent /\ UNCHANGED monFrame
    \/ MonUserEdits /\ UNCHANGED monFrame
    \/ MonResync /\ UNCHANGED monFrame
    \/ MonDispose /\ UNCHANGED monFrame

SpecMonaco == MonStart /\ [][MonNext]_vars

-----------------------------------------------------------------------------
(* Properties *)

\* the pending ChangeSet object with identity id
ChangeSetOf(id) == changeSets[CHOOSE i \in 1..Len(changeSets) : changeSets[i].id = id]

HasChangeSet(id) == \E i \in 1..Len(changeSets) : changeSets[i].id = id

\* the result of applying a change list to t: defined when the changes, taken
\* by ascending start, do not overlap
Applied(t, changes) == applyTextChanges(t, sort(changes))

Yields(t, changes, result) ==
    ~Applied(t, changes).threw /\ Applied(t, changes).text = result

NonOverlapping(changes) == ~Applied(<<>>, changes).threw

DistinctStarts(changes) ==
    \A i, j \in 1..Len(changes) : i # j => changes[i].start # changes[j].start

HasCarriageReturn(t) == CR \in {t[i] : i \in 1..Len(t)}

\* C1: while a remote edit's ChangeSet {before, after} is pending, update() with a
\* change list whose application to before yields after is treated as an echo:
\* shouldApply is false, no Y.Text call is made, the Y.Text and the text mirror
\* stay as they were.
C1_EchoSuppressed ==
    [][(/\ last'.op \in {"update", "echo"}
        /\ \E i \in 1..Len(changeSets) :
              Yields(changeSets[i].before, last'.changes, changeSets[i].after))
       => (/\ ~last'.should
           /\ last'.writes = 0
           /\ yjsText' = yjsText
           /\ text' = text)]_vars

\* C1 witness: the editor has reported a delivered two-change edit in descending
\* order while its callback is pending, and update() dropped it
C1_Witness ==
    /\ last.op = "echo"
    /\ ~last.should
    /\ Len(last.changes) = 2
    /\ last.changes[1].start > last.changes[2].start
    /\ HasChangeSet(last.id)
    /\ \E i \in 1..Len(callbacks) : callbacks[i].id = last.id

\* C2: whenever no remote edit is in flight, the Y.Text content equals the text
\* mirror with every line break normalized to LF.
C2_CrdtIsNormalizedMirror ==
    callbacks = <<>> => yjsText = normalize(text, FALSE)

\* C3: whenever the document is idle (no callback pending), the text mirror
\* equals the text the editor shows.
C3_MirrorIsEditorText ==
    callbacks = <<>> => text = editorText

\* the pending sets of the tracker as {before, after} pairs of the document
TrackerSetsAsDoc ==
    [i \in 1..Len(trk.changeSets) |->
        [id |-> trk.changeSets[i].id,
         before |-> trk.changeSets[i].document,
         after |-> trk.changeSets[i].after]]

TrackerEcho(changes) ==
    \E i \in 1..Len(trk.changeSets) :
        Yields(trk.changeSets[i].document, changes, trk.changeSets[i].after)

\* C4: for a list of non-overlapping changes, shouldApply returns false exactly
\* when some pending ChangeSet's before text with the changes applied equals its
\* after text, and true otherwise (so true when nothing is pending); this for the
\* tracker's shouldApply and for the document's.
C4_ShouldApplyExactlyEcho ==
    (trk.op = "shouldApply" /\ NonOverlapping(trk.changes))
    => (/\ trk.result = (IF TrackerEcho(trk.changes) THEN "false" ELSE "true")
        /\ shouldApply(TrackerSetsAsDoc, trk.changes) = ~TrackerEcho(trk.changes))

\* C5: for a list of non-overlapping changes, shouldApply gives the same answer
\* for the list in reverse order and never throws because of the order; this for
\* the tracker's shouldApply and for the document's.
C5_ShouldApplyOrderIndependent ==
    (/\ trk.op = "shouldApply"
     /\ NonOverlapping(trk.changes)
     /\ DistinctStarts(trk.changes))
    => (/\ trk.result # "throw"
        /\ trackerShouldApply(trk.changeSets, reverse(trk.changes)) = trk.result
        /\ shouldApply(TrackerSetsAsDoc, reverse(trk.changes))
               = shouldApply(TrackerSetsAsDoc, trk.changes))

\* C6: when the callback of a remote edit rejects, the ChangeSet of that edit is
\* no longer pending.
C6_RejectedCallbackRemovesChangeSet ==
    last.op = "rejected" => ~HasChangeSet(last.id)

\* C7: the pending ChangeSets are exactly those of the callbacks that were
\* invoked and have not completed; with no callback in flight there is none.
C7_ChangeSetsAreCallbacksInFlight ==
    {changeSets[i].id : i \in 1..Len(changeSets)} = {callbacks[i].id : i \in 1..Len(callbacks)}

\* C8: the observer call for the document's own (local) transaction changes
\* neither the text mirror nor the line table and its lengths nor the pending
\* ChangeSets, and invokes no callback.
C8_LocalEventIgnored ==
    last.fired =>
        <<text, offsets, textLength, normalizedLength, changeSets, callbacks>> = last.pre

\* C8 witness: update() wrote to the Y.Text while a remote edit was pending, so
\* the observer ran for a local transaction
C8_Witness ==
    /\ last.op = "update"
    /\ last.fired
    /\ last.writes > 0
    /\ changeSets # <<>>

\* C9 example: mirror "a\r\nb", Y.Text "a\nb", delta [retain 2, insert "X"]
C9_Example ==
    observe(DocOf(<<"a", CR, LF, "b">>, <<"a", LF, "X", "b">>, <<>>, Undefined, Undefined, <<>>),
            [local |-> FALSE, delta |-> <<Retain(2), Insert(<<"X">>)>>], 1).delivered
        = <<Change(3, 3, <<"X">>)>>

\* C9: for a remote event on a mirror that is in sync with the Y.Text, the changes
\* handed to the callback, applied to the mirror as it was before the event, give
\* a text whose LF-normalization is the Y.Text after the event; and the example
\* delivers {start: 3, end: 3, text: "X"}.
C9_DeliveredChangesTranslate ==
    [][(last'.op = "remote" /\ yjsText = normalize(text, FALSE))
       => (/\ C9_Example
           /\ Yields(text, last'.changes, text')
           /\ normalize(text', FALSE) = yjsText')]_vars

\* the texts inserted by the delta of the last remote event, in order
InsertedTexts == [k \in 1..Len(toChanges(last.delta)) |-> toChanges(last.delta)[k].text]

LineBreaksAre(t, withCR) ==
    \A i \in 1..Len(t) :
        t[i] = LF => ((i > 1 /\ t[i - 1] = CR) <=> withCR)

SameButCarriageReturns(t, u) ==
    SelectSeq(t, LAMBDA c : c # CR) = SelectSeq(u, LAMBDA c : c # CR)

DeliveredInStyle(withCR) ==
    /\ Len(last.changes) = Len(InsertedTexts)
    /\ \A k \in 1..Len(last.changes) :
        /\ LineBreaksAre(last.changes[k].text, withCR)
        /\ SameButCarriageReturns(last.changes[k].text, InsertedTexts[k])

\* C10 as stated: the line breaks of every delivered insert follow hasCR as it
\* was detected when the document was constructed.
C10_StyleFixedAtConstruction ==
    last.op = "remote" => DeliveredInStyle(hasCRAtConstruction)

\* C10 amended: the line breaks of every delivered insert are "\r\n" when the
\* text mirror contains a '\r' at the moment the event is handled, "\n" otherwise.
C10_StyleOfCurrentMirror ==
    (last.op = "remote" /\ HasChangeSet(last.id))
    => DeliveredInStyle(HasCarriageReturn(ChangeSetOf(last.id).before))

\* C10 witness: a document constructed without '\r' whose mirror got one later
\* delivers a remote "\n" as "\r\n"
C10_Witness ==
    /\ last.op = "remote"
    /\ HasChangeSet(last.id)
    /\ ~hasCRAtConstruction
    /\ HasCarriageReturn(ChangeSetOf(last.id).before)
    /\ \E k \in 1..Len(last.changes) :
        InsertedTexts[k] = <<LF>> /\ last.changes[k].text = <<CR, LF>>

HasCRLF(t) == \E i \in 1..(Len(t) - 1) : t[i] = CR /\ t[i + 1] = LF

\* C11: starting from a Y.Text without "\r\n", as long as only update() calls
\* have happened (no remote event yet) the Y.Text contains no "\r\n".
C11_CrdtHasNoCRLF ==
    nextId = 1 => ~HasCRLF(yjsText)

\* C12 as stated: every update() call and every change event of the editor,
\* with any number of changes, makes exactly one observer event.
C12_ExactlyOneEventPerCall ==
    /\ last.op \in {"update", "fulltext", "echo", "batch"} => last.events = 1
    /\ eng.last.op = "changeEvent" => observerEvents(eng.last.transactions, TRUE) = 1

\* C12: an update() call (from the user's change event, a full-text replacement
\* or the report of an applied edit) makes all its Y.Text calls inside one
\* transaction, and updateTextDocument makes the two calls of every change of a
\* change event it writes inside one transaction; such a call makes exactly
\* one observer event when its Y.Text calls change the Y.Text and none when
\* they do not, when the batch is dropped or, for the document's own
\* observer, after dispose(); never more than one. On a Y.Text that belongs
\* to no Y.Doc update() opens no transaction and makes no observer event.
C12_OneTransactionPerBatch ==
    /\ last.op \in {"update", "fulltext", "echo", "batch"} =>
        /\ subscription.attached =>
               /\ Len(last.transactions) = 1
               /\ last.transactions[1].calls = last.writes
        /\ ~subscription.attached => (last.transactions = <<>> /\ last.events = 0)
        /\ last.events = (IF last.effective > 0 /\ ~subscription.disposed THEN 1 ELSE 0)
        /\ last.fired = (last.events = 1)
        /\ ~last.should => last.writes = 0
    /\ eng.last.op = "changeEvent" =>
        /\ observerEvents(eng.last.transactions, TRUE) <= 1
        /\ eng.last.wrote =>
               /\ Len(eng.last.transactions) = 1
               /\ eng.last.transactions[1].calls = eng.last.calls
               /\ eng.last.calls >= 2
        /\ ~eng.last.wrote => (eng.last.transactions = <<>> /\ eng.last.calls = 0)

\* C12 witness: one update() call with two changes made more than two Y.Text
\* calls that changed the Y.Text, in one transaction and with one observer
\* event
C12_Witness ==
    /\ subscription.attached
    /\ last.op = "batch"
    /\ Len(last.changes) = 2
    /\ last.effective > 2
    /\ Len(last.transactions) = 1
    /\ last.events = 1

Overlapping(changes) == Applied(<<>>, changes).threw

\* C13: when a Y.Text call throws during update(), the text mirror is as it was
\* before the call and the caller gets the error.
C13_FailedUpdateLeavesMirror ==
    [][last'.op = "updateThrew" => (text' = text /\ last'.threw)]_vars

\* C14: update() with a change list in which, sorted by start, some change
\* starts before the end of the one before it signals an error and changes
\* neither the text mirror nor the Y.Text.
C14_OverlappingUpdateRejected ==
    [][(last'.op = "batch" /\ Overlapping(last'.changes))
       => (last'.threw /\ text' = text /\ yjsText' = yjsText)]_vars

\* some change starts before the end of the change listed before it
StartsBeforePreviousEnd(changes) ==
    \E i \in 2..Len(changes) : changes[i].start < changes[i - 1].end

\* t with every [start, end) replaced by the change's text, for changes listed
\* in ascending, non-overlapping order: replaced one by one from the last
RECURSIVE ReplacedFromLast(_, _)
ReplacedFromLast(t, changes) ==
    IF changes = <<>> THEN t
    ELSE ReplacedFromLast(
             SubSeq(t, 1, changes[Len(changes)].start) \o changes[Len(changes)].text
                 \o SubSeq(t, changes[Len(changes)].end + 1, Len(t)),
             SubSeq(changes, 1, Len(changes) - 1))

C15_Examples ==
    /\ applyTextChanges(<<"a", "b", "c", "d", "e", "f">>,
                        <<Change(0, 3, <<"X">>), Change(2, 4, <<"Y">>)>>).threw
    /\ applyTextChanges(<<"a", "b", "c", "d", "e", "f">>,
                        <<Change(0, 2, <<"X">>), Change(2, 4, <<"Y">>)>>)
           = [threw |-> FALSE, text |-> <<"X", "Y", "e", "f">>]
    /\ \A t \in Strings(TrackerChars, MaxLen) :
           applyTextChanges(t, <<>>) = [threw |-> FALSE, text |-> t]

\* C15: applyTextChanges throws exactly when some change starts before the end
\* of the change before it in the list; otherwise, for changes inside the text,
\* it returns the text with every [start, end) replaced by the change's text;
\* the empty list gives the text back.
C15_ApplyTextChanges ==
    /\ C15_Examples
    /\ trk.op = "applyChangesThrew" => StartsBeforePreviousEnd(trk.changes)
    /\ trk.op = "applyChanges" =>
           /\ ~StartsBeforePreviousEnd(trk.changes)
           /\ \A i \in 1..Len(trk.changeSets) :
                  (\A k \in 1..Len(trk.changeSets[i].changes) :
                       trk.changeSets[i].changes[k].end <= Len(trk.changeSets[i].document))
                  => trk.changeSets[i].after
                         = ReplacedFromLast(trk.changeSets[i].document,
                                            trk.changeSets[i].changes)

\* C15 witness: applyChanges was called with two changes of which the second
\* starts inside the first, and applyTextChanges threw
C15_Witness ==
    /\ trk.op = "applyChangesThrew"
    /\ Len(trk.changes) = 2
    /\ trk.changes[2].start < trk.changes[1].end
    /\ trk.changes[1].start < trk.changes[2].start

EngTasks == {eng.tasks[i] : i \in 1..Len(eng.tasks)}

EngChangeSets == {eng.changeSets[i] : i \in 1..Len(eng.changeSets)}

InQueue(id) == \E i \in 1..Len(eng.queue) : eng.queue[i] = id

TimesApplied(id) == Cardinality({i \in 1..Len(eng.applied) : eng.applied[i] = id})

\* the edit of task t is the one its changes give on `document`: every
\* position is the change's offset, at most the length of the document; a
\* change with text is an insert at its start; a resync replaces all of it
EditComputedFrom(document, t) ==
    IF t.kind = "resync"
    THEN /\ Len(t.edit) = 1
         /\ t.edit[1].start = 0
         /\ t.edit[1].end = Len(document)
         /\ t.edit[1].text = t.content
    ELSE /\ Len(t.edit) = Len(t.changes)
         /\ \A i \in 1..Len(t.edit) :
              /\ t.edit[i].text = t.changes[i].text
              /\ t.edit[i].start = Min(t.changes[i].start, Len(document))
              /\ t.edit[i].end = IF t.changes[i].text = <<>>
                                 THEN Min(t.changes[i].end, Len(document))
                                 ELSE t.edit[i].start

\* C16: applyEdit calls the editor at most 20 times for one edit; the edit of
\* every attempt, the first and each retry, is computed from the document as
\* it is at that attempt and from the changes the call started with; no call
\* follows an accepted one; applyEdit never throws, and it returns false only
\* after the 20th rejection or when a call of the editor threw.
C16_ApplyEditBounded ==
    /\ \A t \in EngTasks :
        /\ t.attempts \in 1..maxAttempts
        /\ t.kind = "edit" =>
               \E cs \in EngChangeSets : cs.id = t.id /\ cs.changes = t.changes
        /\ t.st = "accepted" => ~InQueue(t.id)
        /\ (eng.last.op \in {"observer", "retry"} /\ eng.last.id = t.id) =>
               EditComputedFrom(eng.doc, t)
    /\ \A id \in 1..(eng.nextId - 1) : TimesApplied(id) <= 1
    /\ eng.last.op = "retry" => eng.last.attempts \in 2..maxAttempts
    /\ eng.last.op \in {"observerDone", "resyncDone"} =>
        /\ ~eng.last.threw
        /\ eng.last.attempts \in 1..maxAttempts
        /\ ~eng.last.result => (eng.last.attempts = maxAttempts \/ eng.last.caught)
        /\ eng.last.caught => ~eng.last.result
        /\ (eng.last.op = "observerDone" /\ eng.last.result) => TimesApplied(eng.last.id) = 1
        /\ (eng.last.op = "observerDone" /\ ~eng.last.result) =>
               TimesApplied(eng.last.id) = 0

\* C16 witness: an edit whose 20 attempts were all rejected, the last of them
\* computed again after another edit had changed the document, was never
\* applied, and applyEdit returned false
C16_Witness ==
    /\ eng.last.op = "observerDone"
    /\ ~eng.last.result
    /\ ~eng.last.caught
    /\ eng.last.attempts = maxAttempts
    /\ TimesApplied(eng.last.id) = 0
    /\ \E i \in 1..Len(eng.applied) : eng.applied[i] > eng.last.id

\* C17: when the observer's applyEdit has been rejected 20 times (or a call of
\* the editor threw) the observer ends without an error, the change set of the
\* edit is no longer in the tracker, and the throttle of the document is
\* pending.
C17_AbandonedEditSchedulesResync ==
    (eng.last.op = "observerDone" /\ ~eng.last.result) =>
        /\ eng.last.attempts = maxAttempts \/ eng.last.caught
        /\ ~eng.last.threw
        /\ \A cs \in EngChangeSets : cs.id # eng.last.id
        /\ \A t \in EngTasks : t.id # eng.last.id
        /\ eng.throttle

C17_Witness ==
    /\ eng.last.op = "observerDone"
    /\ ~eng.last.result
    /\ eng.last.attempts = maxAttempts
    /\ ~eng.last.caught
    /\ eng.throttle
    /\ eng.changeSets = <<>>
    /\ eng.ytext # eng.doc

\* C18: a resync replaces the editor text with the text the Y.Text had at the
\* comparison, and the change event of that replacement writes nothing into the
\* Y.Text, also when it is delivered after the replace call has resolved.
C18_ResyncWritesNothing ==
    /\ (eng.last.op = "accepted"
          /\ \E t \in EngTasks : t.id = eng.last.id /\ t.kind = "resync") =>
           \E t \in EngTasks : t.id = eng.last.id /\ eng.doc = t.content
    /\ (eng.last.op = "changeEvent" /\ eng.last.source = "resync") => ~eng.last.wrote

ResyncsInFlight == {t \in EngTasks : t.kind = "resync"}

\* C19: at most one resync holds the mutex and has a replacement in flight; a
\* resync that fires meanwhile waits, and the one that starts when the first
\* ends compares and takes the text of the Y.Text of that moment.
C19_OneResyncInFlight ==
    /\ eng.holders <= 1
    /\ Cardinality(ResyncsInFlight) = eng.holders
    /\ eng.resyncing = (eng.holders = 1)
    /\ eng.waiters > 0 => eng.holders = 1
    /\ eng.last.op = "resyncDone" =>
           \A t \in ResyncsInFlight :
               /\ t.id > eng.last.id
               /\ t.attempts = 1
               /\ t.content = eng.ytext
               /\ t.content # eng.doc

C19_Witness ==
    /\ eng.last.op = "resyncDone"
    /\ ResyncsInFlight # {}
    /\ eng.holders = 1

\* C20: the editor applies the edits of remote events in the order in which the
\* events fired (the order of their ids), also when an apply call is rejected
\* and retried.
C20_EditsAppliedInEventOrder ==
    \A i, j \in 1..Len(eng.applied) : i < j => eng.applied[i] < eng.applied[j]

\* C21: originalOffset followed by normalizedOffset gives back every
\* normalized offset between 0 and the length of the LF-normalized text.
C21_NormalizedRoundTrip ==
    (last.op = "originalOffset" /\ last.arg <= Len(normalize(text, FALSE))) =>
        last.back = last.arg

C21_Witness ==
    /\ last.op = "originalOffset"
    /\ HasCRLF(text)
    /\ last.arg <= Len(normalize(text, FALSE))
    /\ last.result > last.arg
    /\ last.back = last.arg

\* C22: normalizedOffset followed by originalOffset gives back every native
\* offset between 0 and the length of the text that is not between the
\* carriage return and the line feed of a CRLF pair.
C22_NativeRoundTrip ==
    (last.op = "normalizedOffset"
        /\ last.arg <= Len(text)
        /\ ~(last.arg > 0 /\ last.arg < Len(text)
               /\ text[last.arg] = CR /\ text[last.arg + 1] = LF)) =>
        last.back = last.arg

C22_Witness ==
    /\ last.op = "normalizedOffset"
    /\ HasCRLF(text)
    /\ last.arg = Len(text)
    /\ last.result < last.arg
    /\ last.back = last.arg

\* the lengths of the lines of t without their line breaks (CRLF, LF or CR)
RECURSIVE LineLengthsFrom(_, _, _)
LineLengthsFrom(t, i, cur) ==
    IF i > Len(t) THEN <<cur>>
    ELSE IF t[i] = CR /\ i < Len(t) /\ t[i + 1] = LF
         THEN <<cur>> \o LineLengthsFrom(t, i + 2, 0)
         ELSE IF t[i] \in {CR, LF}
              THEN <<cur>> \o LineLengthsFrom(t, i + 1, 0)
              ELSE LineLengthsFrom(t, i + 1, cur + 1)

LineLengths(t) == LineLengthsFrom(t, 1, 0)

InRangePosition(t, p) ==
    /\ p.line \in 0..(Len(LineLengths(t)) - 1)
    /\ p.character \in 0..LineLengths(t)[p.line + 1]

\* C23: positionAt(originalOffsetAt(p)) is p for every position p on an
\* existing line and within its visible characters, and positionAt of a native
\* offset between 0 and the text length is such a position.
C23_PositionRoundTrip ==
    /\ (last.op = "originalOffsetAt" /\ InRangePosition(text, last.arg)) =>
           last.back = last.arg
    /\ (last.op = "positionAt" /\ last.arg <= Len(text)) =>
           InRangePosition(text, last.result)

StrictlyIncreasing(table) ==
    \A i \in 1..(Len(table) - 1) :
        /\ table[i].offset < table[i + 1].offset
        /\ table[i].normalized < table[i + 1].normalized

\* C24: the line table starts with {0,0}, has one entry per line and increases
\* strictly in both columns, whatever mix of LF, CRLF and lone CR the text has;
\* the text "\n" gives exactly {0,0} and {1,1}.
C24_LineTableMonotonic ==
    /\ computeNormalizedLineOffsets(<<LF>>).offsets
           = <<[normalized |-> 0, offset |-> 0], [normalized |-> 1, offset |-> 1]>>
    /\ offsets # <<>> =>
        /\ offsets[1] = [normalized |-> 0, offset |-> 0]
        /\ Len(offsets) = Len(LineLengths(text))
        /\ StrictlyIncreasing(offsets)

C24_Witness ==
    /\ Len(offsets) = 3
    /\ HasCRLF(text)
    /\ offsets[3].normalized < offsets[3].offset
    /\ StrictlyIncreasing(offsets)

\* C25: the normalized length the line table gives is the length of the
\* LF-normalized text; "\r\n" has length 2 and normalized length 1.
C25_NormalizedLength ==
    /\ computeNormalizedLineOffsets(<<CR, LF>>).length = 2
    /\ computeNormalizedLineOffsets(<<CR, LF>>).normalizedLength = 1
    /\ offsets # <<>> =>
        /\ textLength = Len(text)
        /\ normalizedLength = Len(normalize(text, FALSE))

\* the offset the position p stands for in a space of length len, from the
\* line starts of the current text
ExpectedOffsetAt(p, key, len) ==
    IF p.line < 0 THEN 0
    ELSE IF p.line >= Len(LineLengths(text)) THEN len
    ELSE IF p.character <= 0
         THEN keyOf(computeNormalizedLineOffsets(text).offsets[p.line + 1], key)
         ELSE Min(keyOf(computeNormalizedLineOffsets(text).offsets[p.line + 1], key)
                      + p.character, len)

\* C26: originalOffsetAt and normalizedOffsetAt return 0 for a negative line,
\* the current length of their space for a line past the last one, and
\* otherwise the line start plus the character, capped at that current length;
\* a normalized result is never past the end of the Y.Text.
C26_OffsetAtWithinCurrentLength ==
    /\ last.op = "originalOffsetAt" =>
           last.result = ExpectedOffsetAt(last.arg, "offset", Len(text))
    /\ last.op = "normalizedOffsetAt" =>
        /\ last.result = ExpectedOffsetAt(last.arg, "normalized",
                                          Len(normalize(text, FALSE)))
        /\ last.result <= Len(yjsText)

\* C27: once dispose() was called, a transaction on the Y.Text leaves the
\* mirror, the change sets and the callbacks as they are, and a callback that
\* was pending still ends with its change set removed.
C27_DisposedIgnoresEvents ==
    [][subscription.disposed =>
          /\ last'.op \in {"remote", "unobserved"} =>
                 /\ text' = text
                 /\ changeSets' = changeSets
                 /\ callbacks' = callbacks
                 /\ nextId' = nextId
          /\ last'.op = "resolved" =>
                 /\ \E i \in 1..Len(changeSets) : changeSets[i].id = last'.id
                 /\ \A i \in 1..Len(changeSets') : changeSets'[i].id # last'.id
                 /\ Len(changeSets') = Len(changeSets) - 1
                 /\ Len(callbacks') = Len(callbacks) - 1]_vars

C27_Witness ==
    /\ subscription.disposed
    /\ last.op = "unobserved"
    /\ callbacks # <<>>
    /\ changeSets # <<>>
    /\ yjsText # normalize(text, FALSE)

IsBlockOf(block, lines) ==
    \E k \in 0..(Len(lines) - Len(block)) :
        \A i \in 1..Len(block) : lines[k + i] = block[i]

\* C28: applyChanges makes no applyEdit call for an empty list of changes, and
\* none for a change whose lines are a contiguous block of the document's
\* lines; the document stays as it was.
C28_NothingToChange ==
    agent.called =>
        /\ agent.changes = <<>> => (agent.calls = <<>> /\ agent.synced = agent.doc)
        /\ (Len(agent.changes) = 1
              /\ IsBlockOf(split(agent.changes[1]), split(agent.doc))) =>
               (agent.calls = <<>> /\ agent.synced = agent.doc)

\* the start of line `line` (counted from 0) in the text of these lines
StartOfLine(lines, line) ==
    IF line = 0 THEN 0 ELSE Len(join(SubSeq(lines, 1, line))) + 1

\* the change has matched context before and after a middle that differs from
\* the document lines between the two contexts
HasModifiedMiddle(docLines, changeLines, location) ==
    /\ location.prefixLines >= 1
    /\ location.suffixLines >= 1
    /\ SubSeq(changeLines, location.prefixLines + 1, Len(changeLines) - location.suffixLines)
           # SubSeq(docLines, location.startLine + 1, location.endLine)

\* C29: for one change with matched leading and trailing context around a
\* modified middle, applyChanges makes exactly one applyEdit call: its text is
\* the middle lines, it starts at the first document line after the prefix and
\* ends with the last document line before the suffix; the issued edits give
\* the document the content of applyChanges' own copy, and the lines before
\* and after the replaced region stay.
C29_ContextEdit ==
    /\ agent.called => agent.synced = agent.currentContent
    /\ (agent.called /\ Len(agent.changes) = 1
          /\ HasModifiedMiddle(split(agent.doc), split(agent.changes[1]),
                               agent.locations[1])) =>
        /\ Len(agent.calls) = 1
        /\ agent.calls[1].text =
               join(SubSeq(split(agent.changes[1]), agent.locations[1].prefixLines + 1,
                           Len(split(agent.changes[1])) - agent.locations[1].suffixLines))
        /\ agent.calls[1].offset = StartOfLine(split(agent.doc), agent.locations[1].startLine)
        /\ agent.calls[1].offset + agent.calls[1].length =
               StartOfLine(split(agent.doc), agent.locations[1].endLine) - 1
        /\ SubSeq(split(agent.synced), 1, agent.locations[1].startLine)
               = SubSeq(split(agent.doc), 1, agent.locations[1].startLine)
        /\ SubSeq(split(agent.synced),
                  Len(split(agent.synced)) - (Len(split(agent.doc)) - agent.locations[1].endLine) + 1,
                  Len(split(agent.synced)))
               = SubSeq(split(agent.doc), agent.locations[1].endLine + 1, Len(split(agent.doc)))

\* the texts a notification's edits insert, in order
RECURSIVE InsertedBy(_)
InsertedBy(es) ==
    IF es = <<>> THEN <<>> ELSE Head(es).text \o InsertedBy(Tail(es))

HostNotifiedOf(k) ==
    \E i \in 1..Len(svc.hostInbox) : svc.hostInbox[i].id = k

GuestUpdateCarried ==
    svc.started =>
        /\ \A i \in 1..Len(svc.guestInbox) : svc.guestInbox[i].cause # "guest"
        /\ \A i \in 1..Len(svc.hostInbox) :
            /\ svc.hostInbox[i].cause = "guest"
            /\ svc.hostInbox[i].edits # <<>>
            /\ InsertedBy(svc.hostInbox[i].edits) = svc.hostInbox[i].change.text
            /\ updateYjsObjectContent(svc.hostInbox[i].before, svc.hostInbox[i].edits)
                   = svc.hostInbox[i].after
        /\ (svc.toHost = <<>> /\ svc.toGuest = <<>>) => svc.hostText = svc.guestText

\* C30: when a guest sends a document content update for a document that host
\* and guest have both opened, the host's client eventually receives an
\* UpdateDocumentContent notification carrying the guest's edit (its edits
\* insert the guest's text and turn the host's document into the document with
\* the guest's change), and the guest's own client receives no notification
\* for its own edit.
C30_GuestUpdateReachesHostOnly ==
    /\ []GuestUpdateCarried
    /\ \A k \in 1..MaxGuestUpdates :
           (svc.started /\ svc.sent >= k) ~> (svc.started /\ HostNotifiedOf(k))

C30_Witness ==
    /\ svc.started
    /\ svc.guestOpened
    /\ svc.guestSynced
    /\ svc.sent = 1
    /\ Len(svc.hostInbox) = 1
    /\ svc.hostInbox[1].edits = <<[startOffset |-> 1, endOffset |-> Undefined,
                                   text |-> <<"b">>]>>
    /\ svc.hostInbox[1].change.startOffset = 1
    /\ svc.hostText = <<"a", "b">>
    /\ svc.guestText = <<"a", "b">>
    /\ svc.guestInbox = <<[cause |-> "host", id |-> 0,
                           edits |-> <<[startOffset |-> 0, endOffset |-> Undefined,
                                        text |-> <<"a">>]>>]>>

\* the values found by following some grouping of the segments through nested
\* objects
RECURSIVE ReachableValues(_, _)
ReachableValues(object, segments) ==
    (IF property(object, joinWith(segments, Dot)).kind = "value"
     THEN {property(object, joinWith(segments, Dot)).value} ELSE {})
    \cup UNION {IF property(object, joinWith(slice(segments, 0, i), Dot)).kind = "object"
                THEN ReachableValues(
                         property(object, joinWith(slice(segments, 0, i), Dot)).object,
                         slice(segments, i, Len(segments)))
                ELSE {} : i \in 1..(Len(segments) - 1)}

\* C31: getValue resolves a kebab-case key to the configured value whenever
\* some grouping of the key's segments into consecutive dot-separated names
\* leads through nested objects to a value, also when another grouping names
\* an object that does not contain the value.
C31_ResolvesEveryGrouping ==
    (cfg.loaded /\ cfg.called) =>
        (ReachableValues(cfg.configuration, splitDots(toObjKey(cfg.key))) # {}
            => /\ cfg.result.defined
               /\ cfg.result.value
                      \in ReachableValues(cfg.configuration, splitDots(toObjKey(cfg.key))))

\* C32: every editor change that is not an echo of an edit the engine applied
\* is written to the CRDT; a change made by the user is dropped neither
\* because the document is marked as resyncing nor because its result equals
\* the `after` text of a pending remote change set.
C32_LocalEditsReachCRDT ==
    (eng.last.op = "changeEvent" /\ eng.last.source = "user") => eng.last.wrote

\* C33: while remote edits are being applied, the editor change event caused
\* by an edit of the engine is never forwarded to the CRDT: delivered while the
\* change set of that edit is pending in the tracker, it is not written, also
\* when the change set was recorded against an editor text without an earlier
\* remote edit.
C33_EngineEditsSuppressed ==
    (eng.last.op = "changeEvent" /\ eng.last.source = "edit" /\ eng.last.tracked)
        => ~eng.last.wrote

\* the resync with task id k has marked the document and not yet removed the mark
ResyncEpisode(k) ==
    \E i \in 1..Len(eng.tasks) : eng.tasks[i].id = k /\ eng.tasks[i].kind = "resync"

ResyncMarkFollowsEpisode ==
    /\ eng.resyncing <=> \E k \in 1..eng.nextId : ResyncEpisode(k)
    /\ (eng.last.op = "accepted" /\ ResyncEpisode(eng.last.id))
           => eng.doc = taskOf(eng, eng.last.id).content
    /\ eng.last.op = "resyncDone" =>
           /\ ~ResyncEpisode(eng.last.id)
           /\ (~eng.last.result => (eng.last.attempts = maxAttempts \/ eng.last.caught))

C35_DeltaToChanges ==
    trk.op \in {"applyDelta", "applyDeltaThrew"} =>
        /\ trk.op = "applyDelta"
        /\ trk.changes = toChanges(trk.delta)
        /\ trk.changes = applyDeltaChanges(trk.delta)
        /\ \A i \in 1..Len(trk.changes) :
            /\ trk.changes[i].text # <<>> => trk.changes[i].start = trk.changes[i].end
            /\ trk.changes[i].start <= trk.changes[i].end
            /\ trk.changes[i].end <= Len(trk.document)
            /\ i > 1 => trk.changes[i - 1].end <= trk.changes[i].start
        /\ applyTextChanges(trk.document, trk.changes).text
               = applyDelta(trk.document, trk.delta)

C35_Witness ==
    /\ trk.op = "applyDelta"
    /\ trk.document = <<"a", "a">>
    /\ Len(trk.delta) = 3
    /\ trk.delta[1].op = "insert"
    /\ trk.delta[2].op = "retain"
    /\ trk.delta[3].op = "delete"
    /\ trk.changes = <<Change(0, 0, trk.delta[1].s), Change(1, 2, <<>>)>>

\* an editor change event of the user with several changes is written
SeveralChangesWritten ==
    /\ eng.events # <<>>
    /\ Head(eng.events).source = "user"
    /\ Len(Head(eng.events).changes) > 1
    /\ eng'.last.op = "changeEvent"
    /\ eng'.last.wrote

\* C36: for an editor change event with several non-overlapping changes whose
\* offsets refer to the document before the event, the CRDT text after the
\* outbound transaction is the CRDT text before it with all those changes
\* applied, whether the event lists them by ascending or by descending offset.
C36_BatchWrittenAsMade ==
    [][SeveralChangesWritten
           => eng'.ytext = editorApply(eng.ytext, Head(eng.events).changes)]_vars

\* C37: on a host whose workspace has been readonly since the session began,
\* changes made by guests never alter the host's editor content: the buffer
\* changes only by an edit of the host's user, never by the CRDT observer and
\* never by a resync.
C37_ReadonlyEditorUntouched ==
    [][(eng.readonly /\ eng.permissionChanges = 0 /\ eng'.doc # eng.doc)
           => eng'.last.op = "typed"]_vars

\* the observers subscribed to the Y.Text of the document's path
ObserversOf(uri) == {o \in reg.observers : o.path = getProtocolPath(uri)}

\* C38: at most one observer is registered per document, and a non-local
\* event of an open document is applied to the editor exactly once, through
\* the tracker that updateTextDocument consults for the document.
C38_OneObserverPerDocument ==
    reg.started =>
        /\ \A uri \in Uris : Cardinality(ObserversOf(uri)) <= 1
        /\ (reg.last.kind = "event" /\ reg.last.open) =>
              /\ reg.last.edits = 1
              /\ reg.last.recorded = reg.last.consulted

\* C39: in the Monaco engine, after the observer applied a remote event to a
\* model that equalled the Y.Text before the event, the model's text equals
\* the Y.Text again, whatever the delta.
C39_MonacoEditorFollowsCRDT ==
    (mon.started /\ mon.last.op = "event" /\ mon.last.observed /\ mon.last.inSync)
        => mon.doc = mon.ytext[mon.last.path]
====
